---- MODULE Spec2Model ----
(***************************************************************************)
(* The capture engine of rdev: listen / grab / exit_grab on macOS          *)
(* (CGEventTap + CFRunLoop) and on Windows (low-level hooks + message      *)
(* pump), with the tap / hook callbacks that deliver portable events to    *)
(* the user callback.                                                      *)
(*                                                                         *)
(* A process is built for exactly one platform; `platform` is fixed by     *)
(* Init and selects which of the two backends' actions can fire.           *)
(***************************************************************************)
EXTENDS Integers, Sequences, FiniteSets, TLC

(***************************************************************************)
(* Bounds of the model.                                                    *)
(***************************************************************************)
\* number of threads of the process that call into the library
NumThreads == 2
\* library calls (listen / grab / exit_grab) in a run that receives no input
MaxCalls == 4
\* native input events delivered to the session of a single-call run
MaxEvents == 2
\* number of WM_QUIT messages the environment posts in one run
MaxQuit == 1
\* largest dead-key state word UCKeyTranslate leaves behind
MaxDead == 1

Threads == 1..NumThreads

\* a run is explored under one of two budgets: several calls from several
\* threads and no input, or a single call whose session receives input events
Budgets == {[calls |-> MaxCalls, events |-> 0],
            [calls |-> 1, events |-> MaxEvents]}

(***************************************************************************)
(* Program constants.                                                      *)
(***************************************************************************)
\* macos/keyboard.rs: CGEventFlags bits
NSEventModifierFlagShift == 2^17
NSEventModifierFlagControl == 2^18
NSEventModifierFlagCommand == 2^20
\* macos/keyboard.rs: length of the UCKeyTranslate output buffer
BUF_LEN == 4
\* winuser.h: hook code of a real input event
HC_ACTION == 0
\* the EventSourceUserData word convert takes for a synthetic marker
SYNTHETIC_MARKER == 100

HasBit(flags, bit) == (flags \div bit) % 2 = 1

VARIABLES
    platform,               \* "macos" or "windows": the target the crate was built for
    keyboardOnly,           \* crate::keyboard_only(): KEYBOARD_ONLY is set
    permissions,            \* macOS: what AXIsProcessTrusted and IOHIDCheckAccess answer
    callsLeft,              \* library calls the run may still make
    eventsLeft,             \* native input events the run may still receive
    pc,                     \* pc[t]: position of thread t inside its current call
    op,                     \* op[t]: the call thread t is in, or made last
    ret,                    \* ret[t]: result of the last call t completed ("none" while in a call)
    listen_GLOBAL_CALLBACK, \* <os>/listen.rs GLOBAL_CALLBACK: 0 = empty, t = the closure
                            \*   that the call of thread t passed in
    grab_GLOBAL_CALLBACK,   \* <os>/grab.rs GLOBAL_CALLBACK, likewise
    IS_GRABBED,             \* macos/grab.rs IS_GRABBED
    listen_EVENT_TAP,       \* macos/listen.rs EVENT_TAP: 0 = null, 1 = the created tap
    grab_EVENT_TAP,         \* macos/grab.rs EVENT_TAP
    RUN_LOOP,               \* macos/grab.rs RUN_LOOP: 0 or the thread whose CFRunLoop it is
    rlRunning,              \* rlRunning[t]: thread t's CFRunLoop is inside CFRunLoopRun
    rlStopped,              \* rlStopped[t]: CFRunLoopStop was accepted for that activation
    installed,              \* hooks and enabled taps the OS currently holds
    installs,               \* installs[m]: number of calls of mode m that installed a hook or tap
    LAST_FLAGS,             \* macos/common.rs LAST_FLAGS
    dead_state,             \* macos/keyboard.rs Keyboard.dead_state inside KEYBOARD_STATE
    CUR_HOOK_THREAD_ID,     \* windows/grab.rs CUR_HOOK_THREAD_ID: 0 or a thread id
    hook_keyboard,          \* windows grab(): local hook_keyboard of thread t (0 = null)
    hook_mouse,             \* windows grab(): local hook_mouse of thread t (0 = null)
    raw_input_hwnd,         \* windows listen(): 0 or the thread whose hidden window is
                            \*   registered for Raw Input
    msgq,                   \* msgq[t]: the Windows thread message queue of t
    quitPosted,             \* number of WM_QUIT messages posted so far
    lastInv,                \* record of the last tap / hook callback invocation
    MOUSE_EXTRA_INFO,       \* macos/simulate.rs MOUSE_EXTRA_INFO
    KEYBOARD_EXTRA_INFO,    \* macos/simulate.rs KEYBOARD_EXTRA_INFO
    hid_queue,              \* native events simulate posted that no tap has seen yet
    lastSim,                \* record of the last simulate call
    frames,                 \* the raw_callback invocations in progress on the session
                            \*   thread, innermost last
    keyboard_mutex,         \* KEYBOARD_STATE (macOS) / KEYBOARD (Windows): 0 = free,
                            \*   n = held by the n-th frame
    callback_mutex,         \* the Mutex around the user callback, likewise
    TOUCH_ACTIVE,           \* windows/listen.rs TOUCH_ACTIVE
    LAST_CONTACT_COUNT,     \* windows/listen.rs LAST_CONTACT_COUNT
    LAST_TOUCH_X,           \* windows/listen.rs LAST_TOUCH_X
    LAST_TOUCH_Y,           \* windows/listen.rs LAST_TOUCH_Y
    lastReport,             \* record of the last touchpad HID report handled
    keyboard,               \* a Keyboard value that KeyboardState::add is called on
    lastAdd,                \* record of the last Keyboard::add call
    keymap,                 \* a keycode, the keyboard layout type, and map_keycode applied to it
    GET_KEY_UNICODE,        \* windows/grab.rs: whether the grab hook asks for the unicode of a key press
    cur_hook_mutex,         \* holder of the CUR_HOOK_THREAD_ID mutex (Windows), 0 when free
    lastExit,               \* record of the last exit_grab made from inside a user callback
    main_thread,            \* the thread that services the main dispatch queue (macOS)
    main_queue,             \* closures given to QUEUE.exec_async that have not run yet
    rx                      \* the channel create_unicode_for_key waits on, and who waits

vars == << platform, keyboardOnly, permissions, callsLeft, eventsLeft, pc, op, ret,
           listen_GLOBAL_CALLBACK, grab_GLOBAL_CALLBACK, IS_GRABBED,
           listen_EVENT_TAP, grab_EVENT_TAP, RUN_LOOP, rlRunning, rlStopped,
           installed, installs, LAST_FLAGS, dead_state,
           CUR_HOOK_THREAD_ID, hook_keyboard, hook_mouse, raw_input_hwnd, msgq,
           quitPosted, lastInv, MOUSE_EXTRA_INFO, KEYBOARD_EXTRA_INFO, hid_queue,
           lastSim, frames, keyboard_mutex, callback_mutex,
           TOUCH_ACTIVE, LAST_CONTACT_COUNT, LAST_TOUCH_X, LAST_TOUCH_Y, lastReport,
           keyboard, lastAdd, keymap, GET_KEY_UNICODE,
           cur_hook_mutex, lastExit, main_thread, main_queue, rx >>

macVars == << IS_GRABBED, listen_EVENT_TAP, grab_EVENT_TAP, RUN_LOOP,
              rlRunning, rlStopped, LAST_FLAGS, dead_state >>
winVars == << CUR_HOOK_THREAD_ID, hook_keyboard, hook_mouse, raw_input_hwnd, msgq,
              quitPosted >>
envVars == << platform, keyboardOnly, permissions, eventsLeft >>
\* the state of simulate, and of the statements inside one raw_callback
simVars == << MOUSE_EXTRA_INFO, KEYBOARD_EXTRA_INFO, hid_queue, lastSim >>
cbVars == << frames, keyboard_mutex, callback_mutex >>
\* the touchpad gesture tracking of windows/listen.rs
touchVars == << TOUCH_ACTIVE, LAST_CONTACT_COUNT, LAST_TOUCH_X, LAST_TOUCH_Y,
               lastReport >>

\* the state the threads share and the OS holds: everything but the per-thread
\* call bookkeeping, the budgets and the invocation record
shared == << listen_GLOBAL_CALLBACK, grab_GLOBAL_CALLBACK, IS_GRABBED,
             listen_EVENT_TAP, grab_EVENT_TAP, RUN_LOOP, rlRunning, rlStopped,
             installed, installs, LAST_FLAGS, dead_state,
             CUR_HOOK_THREAD_ID, hook_keyboard, hook_mouse, raw_input_hwnd, msgq >>

NoInv == [kind |-> "none"]
NoSim == [call |-> "none"]
NoReport == [status |-> "none", seq |-> 0]
\* the Keyboard value and the record of Keyboard::add calls
kbVars == << keyboard, lastAdd, keymap >>
\* the switches of the Windows grab hook
grabVars == << GET_KEY_UNICODE >>
\* exit_grab made from inside a user callback
exitVars == << cur_hook_mutex, lastExit >>
NoExit == [ret |-> "none"]
\* the main dispatch queue and the wait of create_unicode_for_key
queueVars == << main_thread, main_queue, rx >>
NoWait == [state |-> "none"]
\* Keyboard::new()
Keyboard_new == [dead_state |-> 0, shift |-> FALSE, alt |-> FALSE, caps_lock |-> FALSE]
\* what KBGetLayoutType can answer
LayoutTypes == {"kKeyboardANSI", "kKeyboardISO", "kKeyboardJIS"}
\* keycodes: the two map_keycode names, and others
Keycodes == {"kVK_ISO_Section", "kVK_ANSI_Grave", "kVK_ANSI_A", "kVK_ANSI_S",
             "kVK_ANSI_D", "kVK_ANSI_Z", "kVK_ANSI_1", "kVK_Return", "kVK_Space",
             "kVK_Shift", "kVK_Command", "kVK_F1"}
\* no keycode was mapped yet: the layout of the attached keyboard and a keycode
NoKeymap(layout, code) == [layout |-> layout, code |-> code, outs |-> << >>]
NoAdd == [seq |-> 0, call |-> "none", held |-> {}, lastShift |-> "none", lastAlt |-> "none"]

\* both permissions of System Settings > Privacy & Security granted
AllGranted == [accessibility |-> TRUE, input_monitoring |-> TRUE]

\* the state after the program starts, with km the keycode and layout at hand
InitWith(km) ==
    /\ platform \in {"macos", "windows"}
    /\ keyboardOnly \in BOOLEAN
    /\ permissions \in IF platform = "macos"
                       THEN [accessibility : BOOLEAN, input_monitoring : BOOLEAN]
                       ELSE {AllGranted}
    /\ \E b \in Budgets : callsLeft = b.calls /\ eventsLeft = b.events
    /\ pc = [t \in Threads |-> "idle"]
    /\ op = [t \in Threads |-> "none"]
    /\ ret = [t \in Threads |-> "none"]
    /\ listen_GLOBAL_CALLBACK = 0
    /\ grab_GLOBAL_CALLBACK = 0
    /\ IS_GRABBED = FALSE
    /\ listen_EVENT_TAP = 0
    /\ grab_EVENT_TAP = 0
    /\ RUN_LOOP = 0
    /\ rlRunning = [t \in Threads |-> FALSE]
    /\ rlStopped = [t \in Threads |-> FALSE]
    /\ installed = {}
    /\ installs = [m \in {"listen", "grab"} |-> 0]
    /\ LAST_FLAGS = 0
    /\ dead_state = 0
    /\ CUR_HOOK_THREAD_ID = 0
    /\ hook_keyboard = [t \in Threads |-> 0]
    /\ hook_mouse = [t \in Threads |-> 0]
    /\ raw_input_hwnd = 0
    /\ msgq = [t \in Threads |-> << >>]
    /\ quitPosted = 0
    /\ lastInv = NoInv
    /\ MOUSE_EXTRA_INFO = 0
    /\ KEYBOARD_EXTRA_INFO = 0
    /\ hid_queue = << >>
    /\ lastSim = NoSim
    /\ frames = [t \in Threads |-> << >>]
    /\ keyboard_mutex = 0
    /\ callback_mutex = 0
    /\ TOUCH_ACTIVE = FALSE
    /\ LAST_CONTACT_COUNT = 0
    /\ LAST_TOUCH_X = 0
    /\ LAST_TOUCH_Y = 0
    /\ lastReport = NoReport
    /\ keyboard = Keyboard_new
    /\ lastAdd = NoAdd
    /\ keymap = km
    /\ GET_KEY_UNICODE = TRUE
    /\ cur_hook_mutex = 0
    /\ lastExit = NoExit
    /\ main_thread = 2
    /\ main_queue = << >>
    /\ rx = NoWait

Init == InitWith(NoKeymap("kKeyboardANSI", "kVK_ANSI_A"))

(***************************************************************************)
(* Call entry and return.                                                  *)
(***************************************************************************)
\* thread t enters the library function named o, at its first statement
Enter(t, o, first) ==
    /\ pc[t] = "idle"
    /\ callsLeft > 0
    /\ callsLeft' = callsLeft - 1
    /\ pc' = [pc EXCEPT ![t] = first]
    /\ op' = [op EXCEPT ![t] = o]
    /\ ret' = [ret EXCEPT ![t] = "none"]
    /\ UNCHANGED << shared, quitPosted, lastInv, envVars, simVars, cbVars, touchVars, kbVars, grabVars, exitVars, queueVars >>

\* thread t returns r from its current call
Return(t, r) ==
    /\ pc' = [pc EXCEPT ![t] = "idle"]
    /\ ret' = [ret EXCEPT ![t] = r]
    /\ UNCHANGED << op, callsLeft >>

\* thread t moves on to the statement named next
Goto(t, next) ==
    /\ pc' = [pc EXCEPT ![t] = next]
    /\ UNCHANGED << op, ret, callsLeft >>

\* a tap as the OS holds it once CGEventTapEnable(tap, true) ran
Tap(m, t, msk) == [mode |-> m, dev |-> "tap", thread |-> t, mask |-> msk]
\* a low-level hook as the OS holds it once SetWindowsHookExA succeeded
Hook(m, d, t) == [mode |-> m, dev |-> d, thread |-> t, mask |-> "all"]

\* a cell that accepts every store: what set would be without the write-once rule
OnceLockSet_always(cell, new) == [cell |-> new, ok |-> TRUE]

\* a cell that answers Err when set but takes the new value all the same
OnceLockSet_replacing(cell, new) == [cell |-> new, ok |-> cell = 0]

\* OnceLock::set(new): the value the cell holds afterwards, and whether the
\* call answered Ok (the cell was empty) or Err (it was set, and is kept)
OnceLockSet(cell, new) ==
    IF cell = 0 THEN [cell |-> new, ok |-> TRUE] ELSE [cell |-> cell, ok |-> FALSE]

(***************************************************************************)
(* macOS: Unicode translation (keyboard.rs).                               *)
(***************************************************************************)
DeadStates == 0..MaxDead

\* what the TIS* layout lookup and UCKeyTranslate can answer for one key:
\* layout = FALSE: no layout data on any of the three input sources; otherwise
\* `length` code units (c0: the single unit is a C0 control; utf16: the units
\* are well-formed UTF-16) and the dead-key state word the OS leaves behind
OSTranslations ==
    {[layout |-> FALSE, length |-> 0, c0 |-> FALSE, utf16 |-> TRUE, dead |-> 0]}
    \cup {[layout |-> TRUE, length |-> 0, c0 |-> FALSE, utf16 |-> TRUE, dead |-> d] :
            d \in DeadStates}
    \cup {[layout |-> TRUE, length |-> 1, c0 |-> TRUE, utf16 |-> TRUE, dead |-> d] :
            d \in DeadStates}
    \cup {[layout |-> TRUE, length |-> n, c0 |-> FALSE, utf16 |-> u, dead |-> d] :
            n \in {1, BUF_LEN}, u \in BOOLEAN, d \in DeadStates}

NoLayout == [layout |-> FALSE, length |-> 0, c0 |-> FALSE, utf16 |-> TRUE, dead |-> 0]

\* the main-queue hop of create_unicode_for_key: no answer within the wait, or
\* an answer of the translator
Translations ==
    {[timeout |-> TRUE, os |-> NoLayout]}
    \cup {[timeout |-> FALSE, os |-> o] : o \in OSTranslations}

\* Option<UnicodeInfo>: some = FALSE is None; length is unicode.len(), named
\* whether name is Some
NoUnicode == [some |-> FALSE, length |-> 0, named |-> FALSE, is_dead |-> FALSE]

\* a translator that takes the dead-key state alone for the dead flag
unicode_from_code_static_flagging(os, dead) ==
    IF ~os.layout THEN [unicode |-> NoUnicode, dead_state |-> dead]
    ELSE [unicode |-> [some |-> TRUE, length |-> os.length, named |-> os.utf16,
                       is_dead |-> os.dead # 0],
          dead_state |-> os.dead]

\* keyboard.rs unicode_from_code_static, from the answer os of UCKeyTranslate
unicode_from_code_static(os, dead) ==
    IF ~os.layout THEN [unicode |-> NoUnicode, dead_state |-> dead]
    ELSE IF os.length = 0 THEN
        IF os.dead # 0
        THEN [unicode |-> [some |-> TRUE, length |-> 0, named |-> FALSE, is_dead |-> TRUE],
              dead_state |-> os.dead]
        ELSE [unicode |-> NoUnicode, dead_state |-> os.dead]
    ELSE IF os.length = 1 /\ os.c0 THEN
        [unicode |-> NoUnicode, dead_state |-> os.dead]
    ELSE [unicode |-> [some |-> TRUE, length |-> os.length, named |-> os.utf16,
                       is_dead |-> FALSE],
          dead_state |-> os.dead]

\* a create_unicode_for_key that forgets the pending dead key when the wait
\* times out
create_unicode_for_key_resetting(flags, dead, tr) ==
    IF HasBit(flags, NSEventModifierFlagCommand) \/ HasBit(flags, NSEventModifierFlagControl)
    THEN [unicode |-> NoUnicode, dead_state |-> dead]
    ELSE IF tr.timeout
    THEN [unicode |-> NoUnicode, dead_state |-> 0]
    ELSE unicode_from_code_static(tr.os, dead)

\* a create_unicode_for_key that translates whatever the flags are
create_unicode_for_key_any_flags(flags, dead, tr) ==
    IF tr.timeout
    THEN [unicode |-> NoUnicode, dead_state |-> dead]
    ELSE unicode_from_code_static(tr.os, dead)

\* a create_unicode_for_key that does not store the new dead-key state
create_unicode_for_key_discarding(flags, dead, tr) ==
    IF HasBit(flags, NSEventModifierFlagCommand) \/ HasBit(flags, NSEventModifierFlagControl)
    THEN [unicode |-> NoUnicode, dead_state |-> dead]
    ELSE IF tr.timeout
    THEN [unicode |-> NoUnicode, dead_state |-> dead]
    ELSE [unicode |-> unicode_from_code_static(tr.os, dead).unicode, dead_state |-> dead]

\* keyboard.rs create_unicode_for_key; tr is what the hop to the main queue
\* gives within the wait
create_unicode_for_key(flags, dead, tr) ==
    IF HasBit(flags, NSEventModifierFlagCommand) \/ HasBit(flags, NSEventModifierFlagControl)
    THEN [unicode |-> NoUnicode, dead_state |-> dead]
    ELSE IF tr.timeout
    THEN [unicode |-> NoUnicode, dead_state |-> dead]
    ELSE unicode_from_code_static(tr.os, dead)

(***************************************************************************)
(* macOS: native events and their conversion (common.rs convert).          *)
(***************************************************************************)
\* the flag words a FlagsChanged event of the modelled keyboard reports
ModifierFlags ==
    { s + m : s \in {0, NSEventModifierFlagShift}, m \in {0, NSEventModifierFlagCommand} }
\* the flag words a KeyDown event reports
KeyDownFlags == {0, NSEventModifierFlagControl, NSEventModifierFlagCommand}

DefaultTr == [timeout |-> TRUE, os |-> NoLayout]

\* keycode field of a native event: a letter key, a shift key (never
\* translated), or a value get_code cannot read as a 16-bit keycode
NativeEvent(ty, code, flags, moved, isNull, tr) ==
    [type |-> ty, code |-> code, flags |-> flags, moved |-> moved,
     null |-> isNull, tr |-> tr, extra_data |-> 0, source |-> "HIDSystemState"]

\* the same event with another EventSourceUserData word and another source:
\* source is the state id CGEventSource::source_state_id answers for the event,
\* "none" when new_source_from_event answers None
Sourced(ev, extra, src) == [ev EXCEPT !.extra_data = extra, !.source = src]

\* the native events a tap can be handed; fields an event type does not read
\* are held at one value
KeyboardNativeEvents ==
    {NativeEvent("KeyDown", c, 0, FALSE, FALSE, DefaultTr) : c \in {"kVK_Shift", "unreadable"}}
    \cup {NativeEvent("KeyDown", "kVK_ANSI_A", f, FALSE, FALSE, DefaultTr) :
            f \in KeyDownFlags \ {0}}
    \cup {NativeEvent("KeyDown", "kVK_ANSI_A", 0, FALSE, FALSE, tr) : tr \in Translations}
    \cup {NativeEvent("KeyUp", c, 0, FALSE, FALSE, DefaultTr) : c \in {"kVK_ANSI_A", "unreadable"}}
    \cup {NativeEvent("FlagsChanged", c, f, FALSE, FALSE, DefaultTr) :
            c \in {"kVK_Shift", "unreadable"}, f \in ModifierFlags}
    \cup {NativeEvent(ty, "unreadable", 0, FALSE, FALSE, DefaultTr) :
            ty \in {"TapDisabledByTimeout", "TapDisabledByUserInput"}}
    \cup {NativeEvent("KeyDown", "kVK_ANSI_A", 0, FALSE, TRUE, DefaultTr)}

PointerNativeEvents ==
    {NativeEvent(ty, "unreadable", 0, FALSE, FALSE, DefaultTr) :
        ty \in {"Null", "LeftMouseDown", "LeftMouseUp", "ScrollWheel", "Other"}}
    \cup {NativeEvent("MouseMoved", "unreadable", 0, m, FALSE, DefaultTr) : m \in BOOLEAN}

\* events_of_interest of CGEventTapCreate: which events the OS hands to the tap
NativeEventsFor(mask) ==
    IF mask = "keyboard" THEN KeyboardNativeEvents
    ELSE KeyboardNativeEvents \cup PointerNativeEvents

\* is_synthetic of convert: the source is not the hardware one, or the event
\* carries the marker word
is_synthetic(ev) ==
    (ev.source \notin {"HIDSystemState", "none"}) \/ ev.extra_data = SYNTHETIC_MARKER

\* one Event that convert pushes for the native event ev. key names the key by
\* the keycode it is made from (key_from_code(code); "none" for pointer events);
\* time is the one SystemTime::now() that convert reads
PEvent(ev, kind, key, unicode) ==
    [kind |-> kind, key |-> key, unicode |-> unicode, time |-> "now",
     extra_data |-> ev.extra_data, is_synthetic |-> is_synthetic(ev)]
RawCooked(ev, raw, cooked, key, unicode) ==
    << PEvent(ev, raw, key, unicode), PEvent(ev, cooked, key, unicode) >>

\* a comparison that also takes an unchanged flag word for a release
flags_released_when_not_above(flags, last_flags) == flags <= last_flags

\* a comparison that takes every non-empty flag word for a press
flags_released_when_empty(flags, last_flags) == flags = 0

\* flags < last_flags of the FlagsChanged arm: the modifier was released
flags_released(flags, last_flags) == flags < last_flags

\* a move that reports its raw delta after the absolute position
MouseMoveEvents_cooked_first(ev) ==
    IF ev.moved
    THEN << PEvent(ev, "MouseMove", "none", NoUnicode),
            PEvent(ev, "MouseMoveRaw", "none", NoUnicode) >>
    ELSE << PEvent(ev, "MouseMove", "none", NoUnicode) >>

\* the MouseMoved / LeftMouseDragged / RightMouseDragged arm; ev.moved: one of
\* the unaccelerated deltas is non-zero
MouseMoveEvents(ev) ==
    IF ev.moved THEN RawCooked(ev, "MouseMoveRaw", "MouseMove", "none", NoUnicode)
    ELSE << PEvent(ev, "MouseMove", "none", NoUnicode) >>

convert(ev, last_flags, dead) ==
    LET same == [events |-> << >>, LAST_FLAGS |-> last_flags, dead_state |-> dead]
    IN CASE ev.type \in {"LeftMouseDown", "RightMouseDown", "OtherMouseDown"} ->
              [same EXCEPT !.events =
                  RawCooked(ev, "ButtonPressRaw", "ButtonPress", "none", NoUnicode)]
         [] ev.type \in {"LeftMouseUp", "RightMouseUp", "OtherMouseUp"} ->
              [same EXCEPT !.events =
                  RawCooked(ev, "ButtonReleaseRaw", "ButtonRelease", "none", NoUnicode)]
         [] ev.type \in {"MouseMoved", "LeftMouseDragged", "RightMouseDragged"} ->
              [same EXCEPT !.events = MouseMoveEvents(ev)]
         [] ev.type = "KeyDown" ->
              IF ev.code = "unreadable" THEN same
              ELSE LET u == IF ev.code = "kVK_Shift"
                            THEN [unicode |-> NoUnicode, dead_state |-> dead]
                            ELSE create_unicode_for_key(ev.flags, dead, ev.tr)
                   IN [events |-> RawCooked(ev, "KeyPressRaw", "KeyPress", ev.code, u.unicode),
                       LAST_FLAGS |-> last_flags, dead_state |-> u.dead_state]
         [] ev.type = "KeyUp" ->
              IF ev.code = "unreadable" THEN same
              ELSE [same EXCEPT !.events =
                        RawCooked(ev, "KeyReleaseRaw", "KeyRelease", ev.code, NoUnicode)]
         [] ev.type = "FlagsChanged" ->
              IF ev.code = "unreadable" THEN same
              ELSE [events |-> IF flags_released(ev.flags, last_flags)
                               THEN RawCooked(ev, "KeyReleaseRaw", "KeyRelease", ev.code,
                                              NoUnicode)
                               ELSE RawCooked(ev, "KeyPressRaw", "KeyPress", ev.code,
                                              NoUnicode),
                    LAST_FLAGS |-> ev.flags, dead_state |-> dead]
         [] ev.type = "ScrollWheel" ->
              [same EXCEPT !.events = RawCooked(ev, "WheelRaw", "Wheel", "none", NoUnicode)]
         [] OTHER -> same

(***************************************************************************)
(* macOS: the tap callbacks (listen.rs / grab.rs raw_callback).            *)
(***************************************************************************)
\* what the user's grab callback can answer for one event: none, the event it
\* was given, or some other event
GrabAnswers == {"None", "SomeSame", "SomeOther"}

\* a test that knows only the timeout type
IsTapDisabled_timeout_only(ty) == ty = "TapDisabledByTimeout"

\* the first test of raw_callback: the tap was disabled by the OS
IsTapDisabled(ty) == ty \in {"TapDisabledByTimeout", "TapDisabledByUserInput"}

\* whether a tap invocation gets as far as convert
Converts(ev) == ~(IsTapDisabled(ev.type) \/ ev.type = "Null" \/ ev.null)

\* the record of one tap invocation: the native event as received (inType,
\* inNull, inCode, inFlags, inMoved, and of its key translation whether the wait
\* timed out and whether a layout was found), what convert produced, what the user callback was handed and what it
\* answered, the pointer returned to the OS and the type the native event has
\* afterwards
TapOutcome(mode, ev, tapStored, converted, delivered, answers, block) ==
    [kind |-> "tap", mode |-> mode, inType |-> ev.type, inNull |-> ev.null,
     inCode |-> ev.code, inFlags |-> ev.flags, inMoved |-> ev.moved,
     inTimeout |-> ev.tr.timeout, inLayout |-> ev.tr.os.layout,
     reenabled |-> IsTapDisabled(ev.type) /\ tapStored,
     retPtr |-> IF IsTapDisabled(ev.type) THEN "null" ELSE "event",
     outType |-> IF block THEN "Null" ELSE ev.type,
     converted |-> converted, delivered |-> delivered, answers |-> answers]

\* a listening tap that drops the native events it reports
listen_raw_callback_dropping(ev, cb, tapStored, events) ==
    IF ~Converts(ev)
    THEN TapOutcome("listen", ev, tapStored, << >>, << >>, << >>, FALSE)
    ELSE TapOutcome("listen", ev, tapStored, events,
                    IF cb # 0 THEN events ELSE << >>, << >>, cb # 0)

\* macos/listen.rs raw_callback
listen_raw_callback(ev, cb, tapStored, events) ==
    IF ~Converts(ev)
    THEN TapOutcome("listen", ev, tapStored, << >>, << >>, << >>, FALSE)
    ELSE TapOutcome("listen", ev, tapStored, events,
                    IF cb # 0 THEN events ELSE << >>, << >>, FALSE)

\* a should_block that keeps only the answer for the last event
should_block_last(answers) == answers # << >> /\ answers[Len(answers)] = "None"

\* should_block of macos/grab.rs raw_callback, after the loop over the events
should_block(answers) == \E i \in 1..Len(answers) : answers[i] = "None"

\* macos/grab.rs raw_callback; answers[i] is the callback's result for events[i]
grab_raw_callback(ev, cb, tapStored, events, answers) ==
    IF ~Converts(ev)
    THEN TapOutcome("grab", ev, tapStored, << >>, << >>, << >>, FALSE)
    ELSE IF cb = 0
    THEN TapOutcome("grab", ev, tapStored, events, << >>, << >>, FALSE)
    ELSE TapOutcome("grab", ev, tapStored, events, events, answers, should_block(answers))

(***************************************************************************)
(* macOS: listen (listen.rs).                                              *)
(***************************************************************************)
\* a check that asks for Accessibility alone
PermissionsGranted_accessibility_only(p) == p.accessibility

\* is_trusted, and input_access == K_IOHID_ACCESS_TYPE_GRANTED
PermissionsGranted(p) == p.accessibility /\ p.input_monitoring

\* what the tap construction can answer once the permission checks passed
SetupOutcomes == {"notap", "invalidport", "nosource", "ok"}

\* listen() is entered; the event mask is computed from KEYBOARD_ONLY
MacCallListen(t) ==
    /\ platform = "macos"
    /\ Enter(t, "listen", "ml_set")

\* GLOBAL_CALLBACK.set(..): the first call registers, every other call fails
MacListenSet(t) ==
    /\ platform = "macos"
    /\ pc[t] = "ml_set"
    /\ LET set == OnceLockSet(listen_GLOBAL_CALLBACK, t)
       IN /\ listen_GLOBAL_CALLBACK' = set.cell
          /\ IF set.ok THEN Goto(t, "ml_setup") ELSE Return(t, "AlreadyListening")
    /\ UNCHANGED << grab_GLOBAL_CALLBACK, macVars, winVars, installed, installs,
                    lastInv, envVars, simVars, cbVars, touchVars, kbVars, grabVars, exitVars, queueVars >>

\* permission checks, CGEventTapCreate, EVENT_TAP.store, run loop source,
\* CFRunLoopAddSource, CGEventTapEnable
MacListenSetup(t) ==
    /\ platform = "macos"
    /\ pc[t] = "ml_setup"
    /\ \E o \in SetupOutcomes :
        IF ~PermissionsGranted(permissions) \/ o \in {"notap", "invalidport"}
        THEN /\ Return(t, "EventTapError")
             /\ UNCHANGED << listen_EVENT_TAP, installed, installs >>
        ELSE IF o = "nosource"
        THEN /\ listen_EVENT_TAP' = 1
             /\ Return(t, "LoopSourceError")
             /\ UNCHANGED << installed, installs >>
        ELSE /\ listen_EVENT_TAP' = 1
             /\ installed' = installed \cup
                    {Tap("listen", t, IF keyboardOnly THEN "keyboard" ELSE "all")}
             /\ installs' = [installs EXCEPT !["listen"] = @ + 1]
             /\ Goto(t, "ml_run_enter")
    /\ UNCHANGED << listen_GLOBAL_CALLBACK, grab_GLOBAL_CALLBACK, IS_GRABBED,
                    grab_EVENT_TAP, RUN_LOOP, rlRunning, rlStopped, LAST_FLAGS,
                    dead_state, winVars, lastInv, envVars, simVars, cbVars, touchVars, kbVars, grabVars, exitVars, queueVars >>

\* CFRunLoopRun() is entered: the thread's run loop starts an activation
MacListenRunLoopEnter(t) ==
    /\ platform = "macos"
    /\ pc[t] = "ml_run_enter"
    /\ rlRunning' = [rlRunning EXCEPT ![t] = TRUE]
    /\ Goto(t, "ml_run")
    /\ UNCHANGED << listen_GLOBAL_CALLBACK, grab_GLOBAL_CALLBACK, IS_GRABBED,
                    listen_EVENT_TAP, grab_EVENT_TAP, RUN_LOOP, rlStopped,
                    installed, installs, LAST_FLAGS, dead_state, winVars,
                    lastInv, envVars, simVars, cbVars, touchVars, kbVars, grabVars, exitVars, queueVars >>

\* CFRunLoopRun() returns because the activation was stopped; listen returns Ok
MacListenRunLoopReturn(t) ==
    /\ platform = "macos"
    /\ pc[t] = "ml_run"
    /\ rlStopped[t]
    /\ rlRunning' = [rlRunning EXCEPT ![t] = FALSE]
    /\ rlStopped' = [rlStopped EXCEPT ![t] = FALSE]
    /\ Return(t, "Ok")
    /\ UNCHANGED << listen_GLOBAL_CALLBACK, grab_GLOBAL_CALLBACK, IS_GRABBED,
                    listen_EVENT_TAP, grab_EVENT_TAP, RUN_LOOP,
                    installed, installs, LAST_FLAGS, dead_state, winVars,
                    lastInv, envVars, simVars, cbVars, touchVars, kbVars, grabVars, exitVars, queueVars >>

(***************************************************************************)
(* macOS: grab and exit_grab (grab.rs).                                    *)
(***************************************************************************)
MacCallGrab(t) ==
    /\ platform = "macos"
    /\ Enter(t, "grab", "mg_check")

\* if is_grabbed() { return Ok(()) }
MacGrabCheck(t) ==
    /\ platform = "macos"
    /\ pc[t] = "mg_check"
    /\ IF IS_GRABBED THEN Return(t, "Ok") ELSE Goto(t, "mg_set")
    /\ UNCHANGED << shared, quitPosted, lastInv, envVars, simVars, cbVars, touchVars, kbVars, grabVars, exitVars, queueVars >>

\* GLOBAL_CALLBACK.set(..)
MacGrabSet(t) ==
    /\ platform = "macos"
    /\ pc[t] = "mg_set"
    /\ LET set == OnceLockSet(grab_GLOBAL_CALLBACK, t)
       IN /\ grab_GLOBAL_CALLBACK' = set.cell
          /\ IF set.ok THEN Goto(t, "mg_setup") ELSE Return(t, "AlreadyGrabbing")
    /\ UNCHANGED << listen_GLOBAL_CALLBACK, macVars, winVars, installed, installs,
                    lastInv, envVars, simVars, cbVars, touchVars, kbVars, grabVars, exitVars, queueVars >>

\* permission checks, CGEventTapCreate, EVENT_TAP.store, run loop source
MacGrabSetup(t) ==
    /\ platform = "macos"
    /\ pc[t] = "mg_setup"
    /\ \E o \in SetupOutcomes :
        IF ~PermissionsGranted(permissions) \/ o \in {"notap", "invalidport"}
        THEN /\ Return(t, "EventTapError")
             /\ UNCHANGED grab_EVENT_TAP
        ELSE IF o = "nosource"
        THEN /\ grab_EVENT_TAP' = 1
             /\ Return(t, "LoopSourceError")
        ELSE /\ grab_EVENT_TAP' = 1
             /\ Goto(t, "mg_store_rl")
    /\ UNCHANGED << listen_GLOBAL_CALLBACK, grab_GLOBAL_CALLBACK, IS_GRABBED,
                    listen_EVENT_TAP, RUN_LOOP, rlRunning, rlStopped, installed,
                    installs, LAST_FLAGS, dead_state, winVars, lastInv, envVars, simVars, cbVars, touchVars, kbVars, grabVars, exitVars, queueVars >>

\* RUN_LOOP.store(CFRunLoopGetCurrent())
MacGrabStoreRunLoop(t) ==
    /\ platform = "macos"
    /\ pc[t] = "mg_store_rl"
    /\ RUN_LOOP' = t
    /\ Goto(t, "mg_enable")
    /\ UNCHANGED << listen_GLOBAL_CALLBACK, grab_GLOBAL_CALLBACK, IS_GRABBED,
                    listen_EVENT_TAP, grab_EVENT_TAP, rlRunning, rlStopped, installed,
                    installs, LAST_FLAGS, dead_state, winVars, lastInv, envVars, simVars, cbVars, touchVars, kbVars, grabVars, exitVars, queueVars >>

\* CFRunLoopAddSource, CGEventTapEnable(tap, true), IS_GRABBED.store(true);
\* the tap is created for every event whatever KEYBOARD_ONLY says
MacGrabEnable(t) ==
    /\ platform = "macos"
    /\ pc[t] = "mg_enable"
    /\ installed' = installed \cup {Tap("grab", t, "all")}
    /\ installs' = [installs EXCEPT !["grab"] = @ + 1]
    /\ IS_GRABBED' = TRUE
    /\ Goto(t, "mg_run_enter")
    /\ UNCHANGED << listen_GLOBAL_CALLBACK, grab_GLOBAL_CALLBACK,
                    listen_EVENT_TAP, grab_EVENT_TAP, RUN_LOOP, rlRunning, rlStopped,
                    LAST_FLAGS, dead_state, winVars, lastInv, envVars, simVars, cbVars, touchVars, kbVars, grabVars, exitVars, queueVars >>

\* CFRunLoopRun() is entered
MacGrabRunLoopEnter(t) ==
    /\ platform = "macos"
    /\ pc[t] = "mg_run_enter"
    /\ rlRunning' = [rlRunning EXCEPT ![t] = TRUE]
    /\ Goto(t, "mg_run")
    /\ UNCHANGED << listen_GLOBAL_CALLBACK, grab_GLOBAL_CALLBACK, IS_GRABBED,
                    listen_EVENT_TAP, grab_EVENT_TAP, RUN_LOOP, rlStopped,
                    installed, installs, LAST_FLAGS, dead_state, winVars,
                    lastInv, envVars, simVars, cbVars, touchVars, kbVars, grabVars, exitVars, queueVars >>

\* CFRunLoopRun() returns because the activation was stopped
MacGrabRunLoopReturn(t) ==
    /\ platform = "macos"
    /\ pc[t] = "mg_run"
    /\ rlStopped[t]
    /\ rlRunning' = [rlRunning EXCEPT ![t] = FALSE]
    /\ rlStopped' = [rlStopped EXCEPT ![t] = FALSE]
    /\ Goto(t, "mg_after_run")
    /\ UNCHANGED << listen_GLOBAL_CALLBACK, grab_GLOBAL_CALLBACK, IS_GRABBED,
                    listen_EVENT_TAP, grab_EVENT_TAP, RUN_LOOP,
                    installed, installs, LAST_FLAGS, dead_state, winVars,
                    lastInv, envVars, simVars, cbVars, touchVars, kbVars, grabVars, exitVars, queueVars >>

\* a grab that empties the callback container when its session ends
MacGrabFinish_clearing(t) ==
    /\ platform = "macos"
    /\ pc[t] = "mg_after_run"
    /\ IS_GRABBED' = FALSE
    /\ grab_GLOBAL_CALLBACK' = 0
    /\ Return(t, "Ok")
    /\ UNCHANGED << listen_GLOBAL_CALLBACK,
                    listen_EVENT_TAP, grab_EVENT_TAP, RUN_LOOP, rlRunning, rlStopped,
                    installed, installs, LAST_FLAGS, dead_state, winVars,
                    lastInv, envVars, simVars, cbVars, touchVars, kbVars, grabVars, exitVars, queueVars >>

\* IS_GRABBED.store(false); Ok(())
MacGrabFinish(t) ==
    /\ platform = "macos"
    /\ pc[t] = "mg_after_run"
    /\ IS_GRABBED' = FALSE
    /\ Return(t, "Ok")
    /\ UNCHANGED << listen_GLOBAL_CALLBACK, grab_GLOBAL_CALLBACK,
                    listen_EVENT_TAP, grab_EVENT_TAP, RUN_LOOP, rlRunning, rlStopped,
                    installed, installs, LAST_FLAGS, dead_state, winVars,
                    lastInv, envVars, simVars, cbVars, touchVars, kbVars, grabVars, exitVars, queueVars >>

MacCallExitGrab(t) ==
    /\ platform = "macos"
    /\ Enter(t, "exit_grab", "me_store")

\* exit_grab: IS_GRABBED.store(false)
MacExitGrabStore(t) ==
    /\ platform = "macos"
    /\ pc[t] = "me_store"
    /\ IS_GRABBED' = FALSE
    /\ Goto(t, "me_stop")
    /\ UNCHANGED << listen_GLOBAL_CALLBACK, grab_GLOBAL_CALLBACK,
                    listen_EVENT_TAP, grab_EVENT_TAP, RUN_LOOP, rlRunning, rlStopped,
                    installed, installs, LAST_FLAGS, dead_state, winVars,
                    lastInv, envVars, simVars, cbVars, touchVars, kbVars, grabVars, exitVars, queueVars >>

\* CFRunLoopStop(rl): stops the current activation of rl; a run loop that is not
\* inside CFRunLoopRun has no activation to stop and the request leaves no trace
CFRunLoopStop(rl) ==
    IF rlRunning[rl] THEN [rlStopped EXCEPT ![rl] = TRUE] ELSE rlStopped

\* exit_grab: load RUN_LOOP, CFRunLoopStop when it is set, Ok(())
MacExitGrabStop(t) ==
    /\ platform = "macos"
    /\ pc[t] = "me_stop"
    /\ rlStopped' = IF RUN_LOOP # 0 THEN CFRunLoopStop(RUN_LOOP) ELSE rlStopped
    /\ Return(t, "Ok")
    /\ UNCHANGED << listen_GLOBAL_CALLBACK, grab_GLOBAL_CALLBACK, IS_GRABBED,
                    listen_EVENT_TAP, grab_EVENT_TAP, RUN_LOOP, rlRunning,
                    installed, installs, LAST_FLAGS, dead_state, winVars,
                    lastInv, envVars, simVars, cbVars, touchVars, kbVars, grabVars, exitVars, queueVars >>

(***************************************************************************)
(* macOS: one native event reaches a tap whose run loop is running.        *)
(***************************************************************************)
AnswerSeqs(n) == [1..n -> GrabAnswers]

\* convert hands the native event ev to create_unicode_for_key: a KeyDown with
\* a readable keycode that is not a shift key, without Command or Control
Translates(ev) ==
    /\ Converts(ev)
    /\ ev.type = "KeyDown"
    /\ ev.code \notin {"unreadable", "kVK_Shift"}
    /\ ~HasBit(ev.flags, NSEventModifierFlagCommand)
    /\ ~HasBit(ev.flags, NSEventModifierFlagControl)

\* the invocation record, with the key translation made for ev: the dead-key
\* word handed to unicode_from_code_static when the translation completed
\* (passed; 0 when none did) and what the OS answered (inOs)
WithTranslation(inv, ev, dead) ==
    [f \in DOMAIN inv \cup {"inOs", "passed"} |->
        CASE f = "inOs" -> ev.tr.os
          [] f = "passed" -> IF Translates(ev) /\ ~ev.tr.timeout THEN dead ELSE 0
          [] OTHER -> inv[f]]

MacTapCallback(t) ==
    /\ platform = "macos"
    /\ pc[t] \in {"ml_run", "mg_run"}
    /\ rlRunning[t]
    /\ eventsLeft > 0
    /\ eventsLeft' = eventsLeft - 1
    /\ \E tap \in installed, ev \in NativeEventsFor("all") :
        /\ tap.dev = "tap"
        /\ tap.thread = t
        /\ ev \in NativeEventsFor(tap.mask)
        /\ LET c == convert(ev, LAST_FLAGS, dead_state)
           IN /\ IF Converts(ev)
                 THEN /\ LAST_FLAGS' = c.LAST_FLAGS
                      /\ dead_state' = c.dead_state
                 ELSE UNCHANGED << LAST_FLAGS, dead_state >>
              /\ IF tap.mode = "listen"
                 THEN lastInv' = WithTranslation(
                            listen_raw_callback(ev, listen_GLOBAL_CALLBACK,
                                                listen_EVENT_TAP # 0, c.events),
                            ev, dead_state)
                 ELSE \E answers \in AnswerSeqs(Len(c.events)) :
                        lastInv' = WithTranslation(
                            grab_raw_callback(ev, grab_GLOBAL_CALLBACK,
                                              grab_EVENT_TAP # 0, c.events, answers),
                            ev, dead_state)
    /\ UNCHANGED << pc, op, ret, callsLeft, platform, keyboardOnly, permissions,
                    listen_GLOBAL_CALLBACK, grab_GLOBAL_CALLBACK, IS_GRABBED,
                    listen_EVENT_TAP, grab_EVENT_TAP, RUN_LOOP, rlRunning, rlStopped,
                    installed, installs, winVars, simVars, cbVars, touchVars, kbVars, grabVars, exitVars, queueVars >>

MacNext ==
    \E t \in Threads :
        \/ MacCallListen(t) \/ MacListenSet(t) \/ MacListenSetup(t)
        \/ MacListenRunLoopEnter(t) \/ MacListenRunLoopReturn(t)
        \/ MacCallGrab(t) \/ MacGrabCheck(t) \/ MacGrabSet(t) \/ MacGrabSetup(t)
        \/ MacGrabStoreRunLoop(t) \/ MacGrabEnable(t) \/ MacGrabRunLoopEnter(t)
        \/ MacGrabRunLoopReturn(t) \/ MacGrabFinish(t)
        \/ MacCallExitGrab(t) \/ MacExitGrabStore(t) \/ MacExitGrabStop(t)
        \/ MacTapCallback(t)

(***************************************************************************)
(* Windows: the hook callbacks (listen.rs / grab.rs raw_callback).         *)
(***************************************************************************)
\* hook codes the OS passes: HC_ACTION, or a negative code the hook must pass on
HookCodes == {HC_ACTION, -1}

\* what convert(param, lpdata) can answer for a message of a device: the portable
\* event type it decoded, or "none"
ConvertResults(dev) ==
    IF dev = "keyboard" THEN {"KeyPress", "KeyRelease", "none"}
    ELSE {"MouseMove", "ButtonPress", "Wheel", "none"}

\* the record of one hook invocation: the hook code, what convert answered
\* (opt stays "none" when convert was not called), how often the user callback
\* and CallNextHookEx were called, and what the hook procedure returned
HookOutcome(mode, dev, code, opt, cbCalls, answer, blocked) ==
    [kind |-> "hook", mode |-> mode, dev |-> dev, code |-> code, opt |-> opt,
     cbCalls |-> cbCalls, answer |-> answer,
     callNext |-> IF blocked THEN 0 ELSE 1,
     result |-> IF blocked THEN "1" ELSE "CallNextHookEx"]

\* windows/listen.rs raw_callback; opt is what convert answers if called
win_listen_raw_callback(dev, code, opt, cb) ==
    IF code = HC_ACTION
    THEN HookOutcome("listen", dev, code, opt,
                     IF opt # "none" /\ cb # 0 THEN 1 ELSE 0, "unit", FALSE)
    ELSE HookOutcome("listen", dev, code, "none", 0, "unit", FALSE)

\* a grab hook that forwards every event, whatever the callback answers
win_grab_raw_callback_forwarding(dev, code, opt, cb, answer) ==
    IF code = HC_ACTION
    THEN HookOutcome("grab", dev, code, opt,
                     IF opt # "none" /\ cb # 0 THEN 1 ELSE 0,
                     IF opt # "none" /\ cb # 0 THEN answer ELSE "unit", FALSE)
    ELSE HookOutcome("grab", dev, code, "none", 0, "unit", FALSE)

\* windows/grab.rs raw_callback; opt is what convert answers if called, answer
\* what the user callback returns if called
win_grab_raw_callback(dev, code, opt, cb, answer) ==
    IF code = HC_ACTION
    THEN IF opt # "none"
         THEN IF cb # 0
              THEN HookOutcome("grab", dev, code, opt, 1, answer, answer = "None")
              ELSE HookOutcome("grab", dev, code, opt, 0, "unit", FALSE)
         ELSE HookOutcome("grab", dev, code, opt, 0, "unit", FALSE)
    ELSE HookOutcome("grab", dev, code, "none", 0, "unit", FALSE)

(***************************************************************************)
(* Windows: listen (listen.rs).                                            *)
(***************************************************************************)
winFrame == << IS_GRABBED, listen_EVENT_TAP, grab_EVENT_TAP, RUN_LOOP, rlRunning,
               rlStopped, LAST_FLAGS, dead_state >>

WinCallListen(t) ==
    /\ platform = "windows"
    /\ Enter(t, "listen", "wl_set")

\* GLOBAL_CALLBACK.set(..)
WinListenSet(t) ==
    /\ platform = "windows"
    /\ pc[t] = "wl_set"
    /\ LET set == OnceLockSet(listen_GLOBAL_CALLBACK, t)
       IN /\ listen_GLOBAL_CALLBACK' = set.cell
          /\ IF set.ok THEN Goto(t, "wl_hook") ELSE Return(t, "AlreadyListening")
    /\ UNCHANGED << grab_GLOBAL_CALLBACK, winFrame, winVars, installed, installs,
                    lastInv, envVars, simVars, cbVars, touchVars, kbVars, grabVars, exitVars, queueVars >>

\* what the hook installation and the Raw Input registration can answer
ListenHookOutcomes ==
    IF keyboardOnly THEN {"keyfail", "ok"}
    ELSE {"keyfail", "mousefail", "ok", "ok_raw"}

\* set_key_hook, set_mouse_hook, create_hidden_window, register_raw_input
WinListenHook(t) ==
    /\ platform = "windows"
    /\ pc[t] = "wl_hook"
    /\ \E o \in ListenHookOutcomes :
        CASE o = "keyfail" ->
                /\ Return(t, "KeyHookError")
                /\ UNCHANGED << installed, installs, raw_input_hwnd >>
          [] o = "mousefail" ->
                /\ installed' = installed \cup {Hook("listen", "keyboard", t)}
                /\ installs' = [installs EXCEPT !["listen"] = @ + 1]
                /\ Return(t, "MouseHookError")
                /\ UNCHANGED raw_input_hwnd
          [] OTHER ->
                /\ installed' = installed \cup {Hook("listen", "keyboard", t)}
                        \cup (IF keyboardOnly THEN {} ELSE {Hook("listen", "mouse", t)})
                /\ installs' = [installs EXCEPT !["listen"] = @ + 1]
                /\ raw_input_hwnd' = IF o = "ok_raw" THEN t ELSE raw_input_hwnd
                /\ Goto(t, "wl_loop")
    /\ UNCHANGED << listen_GLOBAL_CALLBACK, grab_GLOBAL_CALLBACK, winFrame,
                    CUR_HOOK_THREAD_ID, hook_keyboard, hook_mouse, msgq, quitPosted,
                    lastInv, envVars, simVars, cbVars, touchVars, kbVars, grabVars, exitVars, queueVars >>

\* while GetMessageA(..) > 0 { TranslateMessage; DispatchMessageA }: one message
WinListenLoop(t) ==
    /\ platform = "windows"
    /\ pc[t] = "wl_loop"
    /\ msgq[t] # << >>
    /\ msgq' = [msgq EXCEPT ![t] = Tail(@)]
    /\ IF Head(msgq[t]) = "WM_QUIT" THEN Return(t, "Ok") ELSE Goto(t, "wl_loop")
    /\ UNCHANGED << listen_GLOBAL_CALLBACK, grab_GLOBAL_CALLBACK, winFrame,
                    CUR_HOOK_THREAD_ID, hook_keyboard, hook_mouse, raw_input_hwnd,
                    quitPosted, installed, installs, lastInv, envVars, simVars, cbVars, touchVars, kbVars, grabVars, exitVars, queueVars >>

(***************************************************************************)
(* Windows: grab and exit_grab (grab.rs).                                  *)
(***************************************************************************)
WinCallGrab(t) ==
    /\ platform = "windows"
    /\ Enter(t, "grab", "wg_check")

\* a grab that rejects a call made while a session is active
WinGrabCheck_rejecting(t) ==
    /\ platform = "windows"
    /\ pc[t] = "wg_check"
    /\ IF CUR_HOOK_THREAD_ID # 0
       THEN Return(t, "AlreadyGrabbing") ELSE Goto(t, "wg_hook")
    /\ UNCHANGED << shared, quitPosted, lastInv, envVars, simVars, cbVars, touchVars, kbVars, grabVars, exitVars, queueVars >>

\* if is_grabbed() { return Ok(()) }
WinGrabCheck(t) ==
    /\ platform = "windows"
    /\ pc[t] = "wg_check"
    /\ IF CUR_HOOK_THREAD_ID # 0 THEN Return(t, "Ok") ELSE Goto(t, "wg_hook")
    /\ UNCHANGED << shared, quitPosted, lastInv, envVars, simVars, cbVars, touchVars, kbVars, grabVars, exitVars, queueVars >>

\* what SetWindowsHookExA (keyboard, mouse) and the UnhookWindowsHookEx of the
\* failure path can answer
DoHookOutcomes ==
    IF keyboardOnly THEN {"keyfail", "ok"}
    ELSE {"keyfail", "mousefail", "mousefail_unhookfail", "ok"}

\* do_hook(callback), run under the CUR_HOOK_THREAD_ID lock, and grab's handling
\* of its result
WinGrabDoHook(t) ==
    /\ platform = "windows"
    /\ pc[t] = "wg_hook"
    /\ IF CUR_HOOK_THREAD_ID # 0
       THEN \* already hooked: Ok((null, null)), and grab returns Ok
            /\ Return(t, "Ok")
            /\ UNCHANGED << grab_GLOBAL_CALLBACK, installed, installs,
                            CUR_HOOK_THREAD_ID, hook_keyboard, hook_mouse >>
       ELSE IF ~OnceLockSet(grab_GLOBAL_CALLBACK, t).ok
       THEN /\ grab_GLOBAL_CALLBACK' = OnceLockSet(grab_GLOBAL_CALLBACK, t).cell
            /\ Return(t, "AlreadyGrabbing")
            /\ UNCHANGED << installed, installs, CUR_HOOK_THREAD_ID,
                            hook_keyboard, hook_mouse >>
       ELSE /\ grab_GLOBAL_CALLBACK' = OnceLockSet(grab_GLOBAL_CALLBACK, t).cell
            /\ \E o \in DoHookOutcomes :
                CASE o = "keyfail" ->
                        /\ Return(t, "KeyHookError")
                        /\ UNCHANGED << installed, installs, CUR_HOOK_THREAD_ID,
                                        hook_keyboard, hook_mouse >>
                  [] o = "mousefail" ->
                        \* the keyboard hook was installed and is uninstalled again
                        /\ installs' = [installs EXCEPT !["grab"] = @ + 1]
                        /\ Return(t, "MouseHookError")
                        /\ UNCHANGED << installed, CUR_HOOK_THREAD_ID,
                                        hook_keyboard, hook_mouse >>
                  [] o = "mousefail_unhookfail" ->
                        \* UnhookWindowsHookEx failed: the keyboard hook stays
                        /\ installed' = installed \cup {Hook("grab", "keyboard", t)}
                        /\ installs' = [installs EXCEPT !["grab"] = @ + 1]
                        /\ Return(t, "MouseHookError")
                        /\ UNCHANGED << CUR_HOOK_THREAD_ID, hook_keyboard, hook_mouse >>
                  [] OTHER ->
                        /\ installed' = installed \cup {Hook("grab", "keyboard", t)}
                                \cup (IF keyboardOnly THEN {}
                                      ELSE {Hook("grab", "mouse", t)})
                        /\ installs' = [installs EXCEPT !["grab"] = @ + 1]
                        /\ hook_keyboard' = [hook_keyboard EXCEPT ![t] = 1]
                        /\ hook_mouse' = [hook_mouse EXCEPT ![t] =
                                                IF keyboardOnly THEN 0 ELSE 1]
                        /\ CUR_HOOK_THREAD_ID' = t
                        /\ Goto(t, "wg_loop")
    /\ UNCHANGED << listen_GLOBAL_CALLBACK, winFrame, raw_input_hwnd, msgq,
                    quitPosted, lastInv, envVars, simVars, cbVars, touchVars, kbVars, grabVars, exitVars, queueVars >>

\* the body of grab's message loop for a WM_USER_EXIT_HOOK message:
\* kOk / mOk are the answers of the two UnhookWindowsHookEx calls
ExitHookMessage(t, kOk, mOk) ==
    IF hook_keyboard[t] # 0 /\ ~kOk
    THEN \* continue
         /\ Goto(t, "wg_loop")
         /\ UNCHANGED << installed, hook_keyboard >>
    ELSE /\ hook_keyboard' = [hook_keyboard EXCEPT ![t] = 0]
         /\ IF hook_mouse[t] # 0 /\ ~mOk
            THEN \* continue
                 /\ Goto(t, "wg_loop")
                 /\ installed' = IF hook_keyboard[t] # 0
                                 THEN installed \ {Hook("grab", "keyboard", t)}
                                 ELSE installed
            ELSE \* break
                 /\ Goto(t, "wg_fin")
                 /\ installed' = installed \ ((IF hook_keyboard[t] # 0
                                               THEN {Hook("grab", "keyboard", t)} ELSE {})
                                   \cup (IF hook_mouse[t] # 0
                                         THEN {Hook("grab", "mouse", t)} ELSE {}))

\* while FALSE != GetMessageA(..) { .. }: one message
WinGrabLoop(t) ==
    /\ platform = "windows"
    /\ pc[t] = "wg_loop"
    /\ msgq[t] # << >>
    /\ msgq' = [msgq EXCEPT ![t] = Tail(@)]
    /\ CASE Head(msgq[t]) = "WM_QUIT" ->
                /\ Goto(t, "wg_fin")
                /\ UNCHANGED << installed, hook_keyboard >>
         [] Head(msgq[t]) = "WM_USER_EXIT_HOOK" ->
                \E kOk \in BOOLEAN, mOk \in BOOLEAN : ExitHookMessage(t, kOk, mOk)
         [] OTHER ->
                /\ Goto(t, "wg_loop")
                /\ UNCHANGED << installed, hook_keyboard >>
    /\ UNCHANGED << listen_GLOBAL_CALLBACK, grab_GLOBAL_CALLBACK, winFrame,
                    CUR_HOOK_THREAD_ID, hook_mouse, raw_input_hwnd, quitPosted,
                    installs, lastInv, envVars, simVars, cbVars, touchVars, kbVars, grabVars, exitVars, queueVars >>

\* *CUR_HOOK_THREAD_ID.lock() = 0; Ok(())
WinGrabFinish(t) ==
    /\ platform = "windows"
    /\ pc[t] = "wg_fin"
    /\ CUR_HOOK_THREAD_ID' = 0
    /\ Return(t, "Ok")
    /\ UNCHANGED << listen_GLOBAL_CALLBACK, grab_GLOBAL_CALLBACK, winFrame,
                    hook_keyboard, hook_mouse, raw_input_hwnd, msgq, quitPosted,
                    installed, installs, lastInv, envVars, simVars, cbVars, touchVars, kbVars, grabVars, exitVars, queueVars >>

WinCallExitGrab(t) ==
    /\ platform = "windows"
    /\ Enter(t, "exit_grab", "we_post")

\* an exit_grab that forgets the session even when the post failed
win_exit_grab_forgetting(cur, posted) ==
    IF cur # 0 /\ ~posted
    THEN [ret |-> "ExitGrabError", cur |-> 0, post |-> FALSE]
    ELSE [ret |-> "Ok", cur |-> 0, post |-> cur # 0]

\* windows/grab.rs exit_grab: what it returns, the hook thread id it leaves
\* and whether a message went out; posted is PostThreadMessageA's answer
win_exit_grab(cur, posted) ==
    IF cur # 0 /\ ~posted
    THEN [ret |-> "ExitGrabError", cur |-> cur, post |-> FALSE]
    ELSE [ret |-> "Ok", cur |-> 0, post |-> cur # 0]

\* exit_grab, run under the CUR_HOOK_THREAD_ID lock; PostThreadMessageA may fail
WinExitGrab(t) ==
    /\ platform = "windows"
    /\ pc[t] = "we_post"
    /\ \E posted \in BOOLEAN :
         LET r == win_exit_grab(CUR_HOOK_THREAD_ID, posted)
         IN /\ msgq' = IF r.post
                       THEN [msgq EXCEPT ![CUR_HOOK_THREAD_ID] =
                                    Append(@, "WM_USER_EXIT_HOOK")]
                       ELSE msgq
            /\ CUR_HOOK_THREAD_ID' = r.cur
            /\ Return(t, r.ret)
    /\ UNCHANGED << listen_GLOBAL_CALLBACK, grab_GLOBAL_CALLBACK, winFrame,
                    hook_keyboard, hook_mouse, raw_input_hwnd, quitPosted,
                    installed, installs, lastInv, envVars, simVars, cbVars, touchVars, kbVars, grabVars, exitVars, queueVars >>

\* the environment posts WM_QUIT to a thread that pumps messages
WinPostQuit(t) ==
    /\ platform = "windows"
    /\ pc[t] \in {"wl_loop", "wg_loop"}
    /\ quitPosted < MaxQuit
    /\ quitPosted' = quitPosted + 1
    /\ msgq' = [msgq EXCEPT ![t] = Append(@, "WM_QUIT")]
    /\ UNCHANGED << pc, op, ret, callsLeft, listen_GLOBAL_CALLBACK,
                    grab_GLOBAL_CALLBACK, winFrame, CUR_HOOK_THREAD_ID, hook_keyboard,
                    hook_mouse, raw_input_hwnd, installed, installs, lastInv, envVars, simVars, cbVars, touchVars, kbVars, grabVars, exitVars, queueVars >>

\* the OS calls a low-level hook on the thread that installed it, while that
\* thread waits in GetMessageA
WinHookCallback(t) ==
    /\ platform = "windows"
    /\ pc[t] \in {"wl_loop", "wg_loop"}
    /\ eventsLeft > 0
    /\ eventsLeft' = eventsLeft - 1
    /\ \E h \in installed, code \in HookCodes :
        /\ h.dev \in {"keyboard", "mouse"}
        /\ h.thread = t
        /\ \E opt \in ConvertResults(h.dev) :
            IF h.mode = "listen"
            THEN lastInv' = win_listen_raw_callback(h.dev, code, opt,
                                                    listen_GLOBAL_CALLBACK)
            ELSE \E answer \in GrabAnswers :
                    lastInv' = win_grab_raw_callback(h.dev, code, opt,
                                                     grab_GLOBAL_CALLBACK, answer)
    /\ UNCHANGED << pc, op, ret, callsLeft, platform, keyboardOnly, permissions,
                    listen_GLOBAL_CALLBACK, grab_GLOBAL_CALLBACK, winFrame, winVars,
                    installed, installs, simVars, cbVars, touchVars, kbVars, grabVars, exitVars, queueVars >>

WinNext ==
    \E t \in Threads :
        \/ WinCallListen(t) \/ WinListenSet(t) \/ WinListenHook(t) \/ WinListenLoop(t)
        \/ WinCallGrab(t) \/ WinGrabCheck(t) \/ WinGrabDoHook(t) \/ WinGrabLoop(t)
        \/ WinGrabFinish(t)
        \/ WinCallExitGrab(t) \/ WinExitGrab(t)
        \/ WinPostQuit(t) \/ WinHookCallback(t)

Next == MacNext \/ WinNext

Spec == Init /\ [][Next]_vars

\* the statements a thread executes inside a call it has entered; a thread that
\* is inside a call keeps running unless it waits (GetMessageA with an empty
\* queue, CFRunLoopRun that was not stopped)
ThreadStep(t) ==
    \/ MacListenSet(t) \/ MacListenSetup(t)
    \/ MacListenRunLoopEnter(t) \/ MacListenRunLoopReturn(t)
    \/ MacGrabCheck(t) \/ MacGrabSet(t) \/ MacGrabSetup(t)
    \/ MacGrabStoreRunLoop(t) \/ MacGrabEnable(t) \/ MacGrabRunLoopEnter(t)
    \/ MacGrabRunLoopReturn(t) \/ MacGrabFinish(t)
    \/ MacExitGrabStore(t) \/ MacExitGrabStop(t)
    \/ WinListenSet(t) \/ WinListenHook(t) \/ WinListenLoop(t)
    \/ WinGrabCheck(t) \/ WinGrabDoHook(t) \/ WinGrabLoop(t) \/ WinGrabFinish(t)
    \/ WinExitGrab(t)

\* the scheduler runs every thread that can take a step
LiveSpec == Spec /\ \A t \in Threads : WF_vars(ThreadStep(t))

(***************************************************************************)
(* Sessions.                                                               *)
(***************************************************************************)
\* thread t holds a listen session: its tap is enabled or its hooks are set, and
\* the call is in (or about to enter) its blocking loop
ListenLive(t) == pc[t] \in {"ml_run_enter", "ml_run", "wl_loop"}

\* thread t holds a grab session, from the moment the tap is enabled or the hooks
\* are set until grab leaves its loop and marks the session as ended
GrabLive(t) == pc[t] \in {"mg_run_enter", "mg_run", "mg_after_run", "wg_loop", "wg_fin"}

LiveSessions == {<< "listen", t >> : t \in {u \in Threads : ListenLive(u)}}
                    \cup {<< "grab", t >> : t \in {u \in Threads : GrabLive(u)}}

\* thread t is at the statement of its call that stores the callback
AtListenSet(t) == pc[t] \in {"ml_set", "wl_set"}
AtGrabSet(t) == pc[t] \in {"mg_set", "wg_hook"}
\* thread t is at the is_grabbed() check that opens grab
AtGrabCheck(t) == pc[t] \in {"mg_check", "wg_check"}

\* thread t takes a step of its own
Steps(t) == pc'[t] # pc[t]
\* thread t returns from its call in this step
Returns(t) == pc[t] # "idle" /\ pc'[t] = "idle"

(***************************************************************************)
(* C1.                                                                     *)
(***************************************************************************)
\* C1 (as stated): at most one capture session is live at any time, so a listen
\* session and a grab session are never live together.
C1_AtMostOneSession == Cardinality(LiveSessions) <= 1

\* C1 (amended): at any time at most one listen session and at most one grab
\* session are live; a listen session and a grab session may be live together.
C1_AtMostOneSessionPerMode ==
    /\ Cardinality({t \in Threads : ListenLive(t)}) <= 1
    /\ Cardinality({t \in Threads : GrabLive(t)}) <= 1

\* a listen session and a grab session live together, each holding the callback
\* its own call registered
C1_Witness ==
    \E t \in Threads, u \in Threads :
        /\ ListenLive(t) /\ GrabLive(u)
        /\ listen_GLOBAL_CALLBACK = t /\ grab_GLOBAL_CALLBACK = u

(***************************************************************************)
(* C2.                                                                     *)
(***************************************************************************)
\* the call thread t is in, or made last, registered its callback
ListenRegistered(t) ==
    /\ op[t] = "listen"
    /\ \/ pc[t] \in {"ml_setup", "ml_run_enter", "ml_run", "wl_hook", "wl_loop"}
       \/ pc[t] = "idle" /\ ret[t] \notin {"none", "AlreadyListening"}

\* C2: a listen call that reaches the store of its callback after another call
\* registered one returns AlreadyListening and changes no shared state (callback,
\* hooks, taps, run loops, message queues); a call that finds the container empty
\* registers its own callback and goes on; so of concurrent calls exactly one
\* registers.
C2_SecondListenRejected ==
    [][\A t \in Threads :
         /\ (AtListenSet(t) /\ Steps(t) /\ listen_GLOBAL_CALLBACK # 0)
               => /\ pc'[t] = "idle"
                  /\ ret'[t] = "AlreadyListening"
                  /\ UNCHANGED shared
         /\ (AtListenSet(t) /\ Steps(t) /\ listen_GLOBAL_CALLBACK = 0)
               => /\ listen_GLOBAL_CALLBACK' = t
                  /\ pc'[t] \in {"ml_setup", "wl_hook"}
         /\ ListenRegistered(t)' => listen_GLOBAL_CALLBACK' = t
      ]_vars

\* two threads called listen; one registered and holds the session, the other
\* was answered AlreadyListening
C2_Witness ==
    \E t \in Threads, u \in Threads :
        /\ t # u
        /\ op[t] = "listen" /\ pc[t] = "idle" /\ ret[t] = "AlreadyListening"
        /\ ListenLive(u) /\ listen_GLOBAL_CALLBACK = u

(***************************************************************************)
(* C3.                                                                     *)
(***************************************************************************)
\* thread u holds a macOS grab session whose tap is enabled and whose run loop runs
MacGrabRunning(u) ==
    /\ pc[u] = "mg_run" /\ rlRunning[u]
    /\ Tap("grab", u, "all") \in installed

\* C3: on macOS a grab call that returns while another thread's grab session is
\* live (tap enabled, run loop running) returns AlreadyGrabbing.
C3_GrabWhileLiveRejected ==
    [][\A t \in Threads :
         (/\ platform = "macos" /\ op[t] = "grab" /\ Returns(t)
          /\ \E u \in Threads \ {t} : MacGrabRunning(u) /\ MacGrabRunning(u)')
            => ret'[t] = "AlreadyGrabbing"
      ]_vars

(***************************************************************************)
(* C4.                                                                     *)
(***************************************************************************)
\* C4: on Windows a grab call that finds the recorded hook thread id non-zero
\* returns Ok at once and changes nothing: hooks, callback, hook thread id and
\* message queues stay as they are, and the caller enters no message loop.
C4_GrabWhileActiveIsNoop ==
    [][\A t \in Threads :
         (/\ platform = "windows" /\ pc[t] \in {"wg_check", "wg_hook"}
          /\ Steps(t) /\ CUR_HOOK_THREAD_ID # 0)
            => /\ pc'[t] = "idle"
               /\ ret'[t] = "Ok"
               /\ UNCHANGED shared
      ]_vars

\* a grab session is active on u, and a grab call of another thread returned Ok
C4_Witness ==
    \E t \in Threads, u \in Threads :
        /\ t # u
        /\ platform = "windows"
        /\ pc[u] = "wg_loop" /\ CUR_HOOK_THREAD_ID = u /\ grab_GLOBAL_CALLBACK = u
        /\ op[t] = "grab" /\ pc[t] = "idle" /\ ret[t] = "Ok"

(***************************************************************************)
(* C5.                                                                     *)
(***************************************************************************)
SetupErrors == {"EventTapError", "LoopSourceError", "KeyHookError", "MouseHookError"}

\* C5: a registered callback stays registered, whatever happens to the call that
\* registered it and to its session; a later listen (grab) call, one that reaches
\* its session check or the store of its callback when a callback is registered,
\* and that returns while no listen (grab) session is live, returns
\* AlreadyListening (AlreadyGrabbing); hooks or a tap are installed by at most one
\* listen call and at most one grab call.
C5_CallbackWriteOnce ==
    [][/\ listen_GLOBAL_CALLBACK # 0 => listen_GLOBAL_CALLBACK' = listen_GLOBAL_CALLBACK
       /\ grab_GLOBAL_CALLBACK # 0 => grab_GLOBAL_CALLBACK' = grab_GLOBAL_CALLBACK
       /\ \A t \in Threads :
            /\ (/\ AtListenSet(t) /\ Returns(t) /\ listen_GLOBAL_CALLBACK # 0
                /\ \A u \in Threads : ~ListenLive(u))
                  => ret'[t] = "AlreadyListening"
            /\ (/\ (AtGrabCheck(t) \/ AtGrabSet(t)) /\ Returns(t)
                /\ grab_GLOBAL_CALLBACK # 0
                /\ \A u \in Threads : ~GrabLive(u))
                  => ret'[t] = "AlreadyGrabbing"
       /\ installs'["listen"] <= 1
       /\ installs'["grab"] <= 1
      ]_vars

\* a grab session ran and ended through exit_grab; afterwards, with no session
\* live, another grab call was answered AlreadyGrabbing
C5_Witness ==
    \E t \in Threads, u \in Threads :
        /\ t # u
        /\ op[u] = "grab" /\ pc[u] = "idle" /\ ret[u] = "Ok"
        /\ grab_GLOBAL_CALLBACK = u /\ installs["grab"] = 1
        /\ op[t] = "grab" /\ pc[t] = "idle" /\ ret[t] = "AlreadyGrabbing"
        /\ \A w \in Threads : ~GrabLive(w)

(***************************************************************************)
(* C6.                                                                     *)
(***************************************************************************)
\* the last callback invocation was a Windows grab hook
GrabHookInvoked == lastInv.kind = "hook" /\ lastInv.mode = "grab"

\* C6: a Windows grab hook invocation returns 1 without calling CallNextHookEx
\* when the code is HC_ACTION, the message decodes and the callback answers none;
\* in every other case it calls CallNextHookEx exactly once and returns its
\* result; the callback is called at most once, and never for another hook code.
C6_GrabHookBlocksIffNone ==
    GrabHookInvoked =>
        LET blocks == /\ lastInv.code = HC_ACTION
                      /\ lastInv.opt # "none"
                      /\ lastInv.cbCalls = 1
                      /\ lastInv.answer = "None"
        IN /\ blocks => lastInv.result = "1" /\ lastInv.callNext = 0
           /\ ~blocks => lastInv.result = "CallNextHookEx" /\ lastInv.callNext = 1
           /\ lastInv.cbCalls <= 1
           /\ lastInv.code # HC_ACTION => lastInv.cbCalls = 0

\* a grab hook invocation whose callback answered none and that returned 1
C6_Witness ==
    /\ GrabHookInvoked
    /\ lastInv.code = HC_ACTION /\ lastInv.answer = "None" /\ lastInv.cbCalls = 1
    /\ lastInv.result = "1"

(***************************************************************************)
(* C7.                                                                     *)
(***************************************************************************)
\* the last callback invocation was a macOS grab tap that converted its event
GrabTapConverted ==
    /\ lastInv.kind = "tap" /\ lastInv.mode = "grab"
    /\ lastInv.converted # << >>

\* C7: a macOS grab tap invocation hands every converted event to the callback,
\* in order; the native event's type becomes Null if and only if some answer was
\* none; when every answer is Some, whatever it holds, the native event is
\* returned with its type as it came.
C7_GrabTapBlocksIffAnyNone ==
    GrabTapConverted =>
        LET anyNone == \E i \in 1..Len(lastInv.answers) : lastInv.answers[i] = "None"
        IN /\ lastInv.delivered = lastInv.converted
           /\ Len(lastInv.answers) = Len(lastInv.converted)
           /\ lastInv.retPtr = "event"
           /\ (lastInv.outType = "Null") <=> anyNone
           /\ ~anyNone => lastInv.outType = lastInv.inType

\* one native event gave two portable events; the callback answered none for
\* the first and Some for the second, which was still delivered
C7_Witness ==
    /\ GrabTapConverted
    /\ Len(lastInv.converted) = 2 /\ Len(lastInv.delivered) = 2
    /\ lastInv.answers[1] = "None" /\ lastInv.answers[2] = "SomeOther"
    /\ lastInv.outType = "Null"

(***************************************************************************)
(* C8.                                                                     *)
(***************************************************************************)
\* C8: in listen mode a Windows hook invocation always ends in CallNextHookEx,
\* and a macOS tap invocation whose type is not a tap-disabled marker returns the
\* event pointer it was given, with the event's type unchanged.
C8_ListenNeverSuppresses ==
    /\ (lastInv.kind = "hook" /\ lastInv.mode = "listen")
          => lastInv.callNext = 1 /\ lastInv.result = "CallNextHookEx"
    /\ (lastInv.kind = "tap" /\ lastInv.mode = "listen" /\ ~IsTapDisabled(lastInv.inType))
          => lastInv.retPtr = "event" /\ lastInv.outType = lastInv.inType

\* a listening hook or tap whose callback was handed an event
C8_Witness ==
    /\ lastInv.kind \in {"hook", "tap"}
    /\ lastInv.mode = "listen"
    /\ IF lastInv.kind = "hook" THEN lastInv.cbCalls = 1 ELSE lastInv.delivered # << >>

(***************************************************************************)
(* C9.                                                                     *)
(***************************************************************************)
\* exit_grab answered Ok to a live Windows grab session of thread t: its
\* WM_USER_EXIT_HOOK message waits in the session thread's queue
ExitHookPending(t) ==
    /\ platform = "windows"
    /\ pc[t] = "wg_loop"
    /\ \E i \in 1..Len(msgq[t]) : msgq[t][i] = "WM_USER_EXIT_HOOK"

\* grab of thread t returned Ok and is_grabbed() is false
GrabReturnedOk(t) ==
    /\ op[t] = "grab" /\ pc[t] = "idle" /\ ret[t] = "Ok"
    /\ CUR_HOOK_THREAD_ID = 0 /\ ~IS_GRABBED

\* C9: on Windows, once exit_grab has answered Ok to a live grab session, the
\* session thread leaves its message loop and grab returns Ok with is_grabbed()
\* false, also when an UnhookWindowsHookEx call fails.
C9_ExitGrabTearsDown ==
    \A t \in Threads : ExitHookPending(t) ~> GrabReturnedOk(t)

(***************************************************************************)
(* C10.                                                                    *)
(***************************************************************************)
\* exit_grab was called by thread u after grab of thread t stored its run loop
\* pointer and before that grab returned
ExitGrabAfterRunLoopStored(t, u) ==
    /\ platform = "macos"
    /\ t # u
    /\ pc[t] \in {"mg_enable", "mg_run_enter", "mg_run"} /\ RUN_LOOP = t
    /\ pc[u] = "me_store"

\* C10: on macOS, when exit_grab is called from another thread after grab has
\* stored its run loop pointer, grab eventually returns Ok with is_grabbed()
\* false: the exit request is not lost.
C10_ExitGrabNotLost ==
    \A t \in Threads, u \in Threads :
        ExitGrabAfterRunLoopStored(t, u) ~> GrabReturnedOk(t)

(***************************************************************************)
(* C11: what one native key event hands to the callback.                   *)
(***************************************************************************)
\* the kinds of the events that the invocation inv handed to the user callback,
\* in the order of the calls
DeliveredKinds(inv) ==
    IF inv.kind = "tap"
    THEN [i \in 1..Len(inv.delivered) |-> inv.delivered[i].kind]
    ELSE IF inv.kind = "hook" /\ inv.cbCalls = 1 THEN << inv.opt >> ELSE << >>

\* the hook invocation inv is all that its session hands over for the native
\* event: the session has no Raw Input window that reports the event as well
\* (grab never creates one, listen may have none)
HookIsOnlyPath(inv) ==
    inv.kind = "hook" /\ (inv.mode = "grab" \/ raw_input_hwnd = 0)

\* the invocation was made for a native key-down (key-up) whose key the
\* conversion could name
NativeKeyDown(inv) ==
    \/ inv.kind = "tap" /\ inv.inType = "KeyDown" /\ ~inv.inNull
                        /\ inv.inCode # "unreadable"
    \/ HookIsOnlyPath(inv) /\ inv.dev = "keyboard" /\ inv.code = HC_ACTION
                           /\ inv.opt = "KeyPress"
NativeKeyUp(inv) ==
    \/ inv.kind = "tap" /\ inv.inType = "KeyUp" /\ ~inv.inNull
                        /\ inv.inCode # "unreadable"
    \/ HookIsOnlyPath(inv) /\ inv.dev = "keyboard" /\ inv.code = HC_ACTION
                           /\ inv.opt = "KeyRelease"

\* C11: every native key-down observed by a session hands the callback exactly
\* KeyPressRaw and then KeyPress, every native key-up exactly KeyReleaseRaw and
\* then KeyRelease.  Stated for the invocations that are the session's only
\* report of the event: every macOS tap invocation, and a Windows hook
\* invocation of a session without Raw Input.
C11_KeyEventRawThenCooked ==
    /\ NativeKeyDown(lastInv) => DeliveredKinds(lastInv) = << "KeyPressRaw", "KeyPress" >>
    /\ NativeKeyUp(lastInv) => DeliveredKinds(lastInv) = << "KeyReleaseRaw", "KeyRelease" >>

(***************************************************************************)
(* The conversion of native events by a live macOS listen session, over    *)
(* every event type of convert, every source and every user-data word.     *)
(***************************************************************************)
\* the largest EventSourceUserData word, besides 0 and the marker, that an
\* event carries
MaxExtraInfo == 1
ExtraInfos == {0, SYNTHETIC_MARKER} \cup (1..MaxExtraInfo)

\* what CGEventSource::source_state_id can answer for an event, "none" when
\* new_source_from_event answers None
SourceStates == {"HIDSystemState", "CombinedSessionState", "Private", "none"}

\* the event types of convert's match that the narrower sets above leave out
MoreNativeEvents ==
    {NativeEvent(ty, "unreadable", 0, FALSE, FALSE, DefaultTr) :
        ty \in {"RightMouseDown", "RightMouseUp", "OtherMouseDown", "OtherMouseUp"}}
    \cup {NativeEvent(ty, "unreadable", 0, m, FALSE, DefaultTr) :
            ty \in {"LeftMouseDragged", "RightMouseDragged"}, m \in BOOLEAN}
    \cup {NativeEvent("FlagsChanged", "kVK_Command", f, FALSE, FALSE, DefaultTr) :
            f \in ModifierFlags}

\* every event type with every source and user-data word; the key translation
\* is held at the one that times out
WideNativeEvents ==
    {Sourced(ev, x, src) :
        ev \in {e \in NativeEventsFor("all") \cup MoreNativeEvents : e.tr = DefaultTr},
        x \in ExtraInfos, src \in SourceStates}

\* whether a tap created with the mask hands the event to its callback: the
\* keyboard mask names KeyDown, KeyUp and FlagsChanged, and the tap-disabled
\* notifications arrive whatever the mask
InMask(ev, mask) ==
    \/ mask = "all"
    \/ ev.type \in {"KeyDown", "KeyUp", "FlagsChanged"}
    \/ IsTapDisabled(ev.type)

\* a state of Spec: thread 1 has called listen or grab on macOS (KEYBOARD_ONLY
\* being ko), its tap is enabled and it sits in CFRunLoopRun; nothing else has
\* been called; main is the thread that services the main dispatch queue
MacSessionLiveOn(m, ko, main) ==
    /\ platform = "macos"
    /\ keyboardOnly = ko
    /\ permissions = AllGranted
    /\ callsLeft = 0
    /\ eventsLeft = MaxEvents
    /\ pc = [t \in Threads |-> IF t = 1 THEN (IF m = "listen" THEN "ml_run" ELSE "mg_run")
                                ELSE "idle"]
    /\ op = [t \in Threads |-> IF t = 1 THEN m ELSE "none"]
    /\ ret = [t \in Threads |-> "none"]
    /\ listen_GLOBAL_CALLBACK = (IF m = "listen" THEN 1 ELSE 0)
    /\ grab_GLOBAL_CALLBACK = (IF m = "grab" THEN 1 ELSE 0)
    /\ IS_GRABBED = (m = "grab")
    /\ listen_EVENT_TAP = (IF m = "listen" THEN 1 ELSE 0)
    /\ grab_EVENT_TAP = (IF m = "grab" THEN 1 ELSE 0)
    /\ RUN_LOOP = (IF m = "grab" THEN 1 ELSE 0)
    /\ rlRunning = [t \in Threads |-> t = 1]
    /\ rlStopped = [t \in Threads |-> FALSE]
    /\ installed = {Tap(m, 1, IF m = "listen" /\ keyboardOnly THEN "keyboard" ELSE "all")}
    /\ installs = [k \in {"listen", "grab"} |-> IF k = m THEN 1 ELSE 0]
    /\ LAST_FLAGS = 0
    /\ dead_state = 0
    /\ CUR_HOOK_THREAD_ID = 0
    /\ hook_keyboard = [t \in Threads |-> 0]
    /\ hook_mouse = [t \in Threads |-> 0]
    /\ raw_input_hwnd = 0
    /\ msgq = [t \in Threads |-> << >>]
    /\ quitPosted = 0
    /\ lastInv = NoInv
    /\ MOUSE_EXTRA_INFO = 0
    /\ KEYBOARD_EXTRA_INFO = 0
    /\ hid_queue = << >>
    /\ lastSim = NoSim
    /\ frames = [t \in Threads |-> << >>]
    /\ keyboard_mutex = 0
    /\ callback_mutex = 0
    /\ TOUCH_ACTIVE = FALSE
    /\ LAST_CONTACT_COUNT = 0
    /\ LAST_TOUCH_X = 0
    /\ LAST_TOUCH_Y = 0
    /\ lastReport = NoReport
    /\ keyboard = Keyboard_new
    /\ lastAdd = NoAdd
    /\ keymap = NoKeymap("kKeyboardANSI", "kVK_ANSI_A")
    /\ GET_KEY_UNICODE = TRUE
    /\ cur_hook_mutex = 0
    /\ lastExit = NoExit
    /\ main_thread = main
    /\ main_queue = << >>
    /\ rx = NoWait

\* the same state with the main dispatch queue serviced by another thread
MacSessionLive(m, ko) == MacSessionLiveOn(m, ko, 2)

ConvertInit == \E ko \in BOOLEAN : MacSessionLive("listen", ko)

\* the OS hands the native event ev to the tap of thread t's listen session
ConvertTapCallback(t) ==
    /\ platform = "macos"
    /\ pc[t] = "ml_run"
    /\ rlRunning[t]
    /\ \E tap \in installed, ev \in WideNativeEvents :
        /\ tap = Tap("listen", t, tap.mask)
        /\ InMask(ev, tap.mask)
        /\ LET c == convert(ev, LAST_FLAGS, dead_state)
           IN /\ IF Converts(ev)
                 THEN /\ LAST_FLAGS' = c.LAST_FLAGS
                      /\ dead_state' = c.dead_state
                 ELSE UNCHANGED << LAST_FLAGS, dead_state >>
              /\ lastInv' = listen_raw_callback(ev, listen_GLOBAL_CALLBACK,
                                                listen_EVENT_TAP # 0, c.events)
    /\ UNCHANGED << pc, op, ret, callsLeft, envVars,
                    listen_GLOBAL_CALLBACK, grab_GLOBAL_CALLBACK, IS_GRABBED,
                    listen_EVENT_TAP, grab_EVENT_TAP, RUN_LOOP, rlRunning, rlStopped,
                    installed, installs, winVars, simVars, cbVars, touchVars, kbVars, grabVars, exitVars, queueVars >>

ConvertNext == \E t \in Threads : ConvertTapCallback(t)

ConvertSpec == ConvertInit /\ [][ConvertNext]_vars

(***************************************************************************)
(* C12: the event list of one native event.                                *)
(***************************************************************************)
RawKinds == {"KeyPressRaw", "KeyReleaseRaw", "ButtonPressRaw", "ButtonReleaseRaw",
             "MouseMoveRaw", "WheelRaw"}
CookedKinds == {"KeyPress", "KeyRelease", "ButtonPress", "ButtonRelease",
                "MouseMove", "Wheel"}

Kinds(events) == [i \in 1..Len(events) |-> events[i].kind]

\* the tap invocation got as far as convert
TapConverted == lastInv.kind = "tap" /\ ~lastInv.inNull
                /\ ~IsTapDisabled(lastInv.inType) /\ lastInv.inType # "Null"

\* C12: the list convert produces for one native event holds at most two
\* events; a raw event of the list stands before every cooked one and carries
\* the same time, extra_data and is_synthetic; a pointer move gives
\* [MouseMoveRaw, MouseMove] when a delta is non-zero and [MouseMove] otherwise;
\* the callback is handed the events of the list in list order.
C12_RawBeforeCooked ==
    TapConverted =>
        LET es == lastInv.converted
        IN /\ Len(es) <= 2
           /\ \A i, j \in 1..Len(es) :
                es[i].kind \in RawKinds /\ es[j].kind \in CookedKinds =>
                    /\ i < j
                    /\ es[i].time = es[j].time
                    /\ es[i].extra_data = es[j].extra_data
                    /\ es[i].is_synthetic = es[j].is_synthetic
           /\ lastInv.inType \in {"MouseMoved", "LeftMouseDragged", "RightMouseDragged"} =>
                Kinds(es) = IF lastInv.inMoved THEN << "MouseMoveRaw", "MouseMove" >>
                            ELSE << "MouseMove" >>
           /\ lastInv.delivered = es

\* a dragged pointer with a non-zero delta, coming from a private source, was
\* converted to two events and both were handed to the callback
C12_Witness ==
    /\ TapConverted
    /\ lastInv.inType = "LeftMouseDragged"
    /\ lastInv.inMoved
    /\ Len(lastInv.delivered) = 2
    /\ lastInv.delivered[1].is_synthetic
    /\ lastInv.delivered[1].extra_data # 0

(***************************************************************************)
(* macOS: simulate (simulate.rs), with a listen session live that is       *)
(* handed what simulate posts.                                             *)
(***************************************************************************)
\* the most events posted and not yet handed to the tap
MaxPosted == 1

\* the keys an EventType can name: a key of the enum, or a RawKey holding a
\* macOS virtual keycode or another platform's code
SimKeys == {"KeyA", "RawKey_MacVirtualKeycode", "RawKey_ScanCode"}
Buttons == {"Left", "Right", "Middle"}

\* the EventType values passed to simulate
SimEventTypes ==
    {[kind |-> k, arg |-> a] : k \in {"KeyPress", "KeyRelease"}, a \in SimKeys}
    \cup {[kind |-> k, arg |-> a] : k \in {"ButtonPress", "ButtonRelease"}, a \in Buttons}
    \cup {[kind |-> k, arg |-> "none"] : k \in {"MouseMove", "Wheel"}}
    \cup {[kind |-> k, arg |-> "none"] : k \in RawKinds}

None == [some |-> FALSE]
Some(v) == [some |-> TRUE, v |-> v]

\* the device class of an EventType
DeviceClass(kind) ==
    IF kind \in {"KeyPress", "KeyRelease", "KeyPressRaw", "KeyReleaseRaw"}
    THEN "keyboard" ELSE "mouse"

\* CGEventFlags masks that workaround_fn strips
MaskSecondaryFn == 2^23
MaskNumericPad == 2^21
MaskHelp == 2^22

\* flags.0 & !mask, for a mask of one bit
ClearBit(flags, bit) == IF HasBit(flags, bit) THEN flags - bit ELSE flags

\* the keycodes of the first arm of workaround_fn
FnKeycodes ==
    {"kVK_F1", "kVK_F2", "kVK_F3", "kVK_F4", "kVK_F5", "kVK_F6", "kVK_F7",
     "kVK_F8", "kVK_F9", "kVK_F10", "kVK_F11", "kVK_F12", "kVK_F13", "kVK_F14",
     "kVK_F15", "kVK_F16", "kVK_F17", "kVK_F18", "kVK_F19",
     "kVK_ANSI_KeypadClear", "kVK_ForwardDelete", "kVK_Home", "kVK_End",
     "kVK_PageDown", "kVK_PageUp",
     "keycode_129", "keycode_130", "keycode_131", "keycode_144", "keycode_145"}
ArrowKeycodes == {"kVK_UpArrow", "kVK_DownArrow", "kVK_LeftArrow", "kVK_RightArrow"}

\* a workaround_fn that strips SecondaryFn alone from an arrow key
workaround_fn_fn_only(flags, keycode) ==
    IF keycode \in FnKeycodes \cup ArrowKeycodes \cup {"kVK_Help"}
    THEN ClearBit(flags, MaskSecondaryFn)
    ELSE flags

\* workaround_fn: the flags it leaves on the event
workaround_fn(flags, keycode) ==
    IF keycode \in FnKeycodes THEN ClearBit(flags, MaskSecondaryFn)
    ELSE IF keycode \in ArrowKeycodes
    THEN ClearBit(ClearBit(flags, MaskSecondaryFn), MaskNumericPad)
    ELSE IF keycode = "kVK_Help"
    THEN ClearBit(ClearBit(flags, MaskSecondaryFn), MaskHelp)
    ELSE flags

\* the keycode a key argument of simulate stands for: Key::KeyA through
\* code_from_key, RawKey(MacVirtualKeycode(code)) the code itself
SimKeycode(arg) ==
    IF arg = "KeyA" THEN "kVK_ANSI_A"
    ELSE IF arg = "RawKey_MacVirtualKeycode" THEN "kVK_Shift"
    ELSE arg

\* convert_native_with_source: the native event built from the source, or
\* None.  coded: code_from_key names a keycode for the key; os_ok: the OS
\* constructors (and get_current_mouse_location) answer Some.  A new event
\* carries the user-data word 0.
convert_native_with_source(et, source, last_flags, coded, os_ok) ==
    LET key(ty) ==
            IF et.arg = "RawKey_ScanCode" THEN None
            ELSE IF et.arg = "KeyA" /\ ~coded THEN None
            ELSE IF ~os_ok THEN None
            ELSE Some(Sourced(NativeEvent(ty, SimKeycode(et.arg),
                                          IF ty = "KeyUp"
                                          THEN workaround_fn(last_flags, SimKeycode(et.arg))
                                          ELSE last_flags,
                                          FALSE, FALSE, DefaultTr),
                              0, source))
        pointer(ty) ==
            IF ~os_ok THEN None
            ELSE Some(Sourced(NativeEvent(ty, "unreadable", 0, FALSE, FALSE, DefaultTr),
                              0, source))
    IN CASE et.kind = "KeyPress" -> key("KeyDown")
         [] et.kind = "KeyRelease" -> key("KeyUp")
         [] et.kind = "ButtonPress" ->
                IF et.arg = "Left" THEN pointer("LeftMouseDown")
                ELSE IF et.arg = "Right" THEN pointer("RightMouseDown")
                ELSE None
         [] et.kind = "ButtonRelease" ->
                IF et.arg = "Left" THEN pointer("LeftMouseUp")
                ELSE IF et.arg = "Right" THEN pointer("RightMouseUp")
                ELSE None
         [] et.kind = "MouseMove" -> pointer("MouseMoved")
         [] et.kind = "Wheel" -> pointer("ScrollWheel")
         [] OTHER -> None

\* convert_native: the source is created with HIDSystemState
convert_native(et, last_flags, coded, os_ok) ==
    convert_native_with_source(et, "HIDSystemState", last_flags, coded, os_ok)

\* a simulate that posts what it was given before it looks at the conversion
simulate_posting_first(et, mouse_extra, last_flags, coded, os_ok) ==
    LET c == convert_native(et, last_flags, coded, os_ok)
        ev == Sourced(NativeEvent("Other", "unreadable", 0, FALSE, FALSE, DefaultTr),
                      mouse_extra, "HIDSystemState")
    IN IF c.some THEN [ret |-> "Ok", post |-> << c.v >>]
       ELSE [ret |-> "SimulateError", post |-> << ev >>]

\* simulate: the result and the events handed to CGEvent::post
simulate(et, mouse_extra, last_flags, coded, os_ok) ==
    LET c == convert_native(et, last_flags, coded, os_ok)
    IN IF c.some
       THEN [ret |-> "Ok", post |-> << [c.v EXCEPT !.extra_data = mouse_extra] >>]
       ELSE [ret |-> "SimulateError", post |-> << >>]

\* the CGEventSourceStateID values a VirtualInput is made with
VirtualSources == {"HIDSystemState", "Private"}

\* VirtualInput::simulate, for an instance made with the source state id
VirtualInput_simulate(source, et, last_flags, coded, os_ok) ==
    LET c == convert_native_with_source(et, source, last_flags, coded, os_ok)
    IN IF c.some THEN [ret |-> "Ok", post |-> << c.v >>]
       ELSE [ret |-> "SimulateError", post |-> << >>]

\* an event in the OS input queue: who posted it and for which device class
Posted(ev, class, by) == [ev |-> ev, class |-> class, by |-> by]

\* what a call was given, what it answered and how many events it posted
SimRecord(call, et, r) ==
    [call |-> call, kind |-> et.kind, ret |-> r.ret, posted |-> Len(r.post)]

SimInit == MacSessionLive("listen", FALSE)

simFrame == << pc, op, ret, callsLeft, envVars, shared, quitPosted, cbVars,
              touchVars, kbVars, grabVars, exitVars, queueVars >>

\* set_mouse_extra_info(extra), called by a thread that is in no other call
set_mouse_extra_info(t) ==
    /\ pc[t] = "idle"
    /\ \E extra \in ExtraInfos : MOUSE_EXTRA_INFO' = extra
    /\ UNCHANGED << simFrame, lastInv, KEYBOARD_EXTRA_INFO, hid_queue, lastSim >>

\* set_keyboard_extra_info(extra)
set_keyboard_extra_info(t) ==
    /\ pc[t] = "idle"
    /\ \E extra \in ExtraInfos : KEYBOARD_EXTRA_INFO' = extra
    /\ UNCHANGED << simFrame, lastInv, MOUSE_EXTRA_INFO, hid_queue, lastSim >>

\* simulate(event_type)
SimSimulate(t) ==
    /\ pc[t] = "idle"
    /\ Len(hid_queue) < MaxPosted
    /\ \E et \in SimEventTypes, coded \in BOOLEAN, os_ok \in BOOLEAN :
        LET r == simulate(et, MOUSE_EXTRA_INFO, LAST_FLAGS, coded, os_ok)
        IN /\ hid_queue' = hid_queue \o
                    [i \in 1..Len(r.post) |->
                        Posted(r.post[i], DeviceClass(et.kind), "simulate")]
           /\ lastSim' = SimRecord("simulate", et, r)
    /\ UNCHANGED << simFrame, lastInv, MOUSE_EXTRA_INFO, KEYBOARD_EXTRA_INFO >>

\* VirtualInput::simulate(event_type) on an instance made by VirtualInput::new
SimVirtualInput(t) ==
    /\ pc[t] = "idle"
    /\ Len(hid_queue) < MaxPosted
    /\ \E source \in VirtualSources, et \in SimEventTypes,
          coded \in BOOLEAN, os_ok \in BOOLEAN :
        LET r == VirtualInput_simulate(source, et, LAST_FLAGS, coded, os_ok)
        IN /\ hid_queue' = hid_queue \o
                    [i \in 1..Len(r.post) |->
                        Posted(r.post[i], DeviceClass(et.kind), "VirtualInput")]
           /\ lastSim' = SimRecord("VirtualInput", et, r)
    /\ UNCHANGED << simFrame, lastInv, MOUSE_EXTRA_INFO, KEYBOARD_EXTRA_INFO >>

\* the record of a tap invocation, with the call that posted its event
PostedBy(inv, by) ==
    [f \in DOMAIN inv \cup {"by"} |-> IF f = "by" THEN by ELSE inv[f]]

\* the OS hands the oldest posted event to the tap of thread t's listen
\* session.  The source the tap reads back from the event is the one the event
\* was built from, or none.
SimTapCallback(t) ==
    /\ pc[t] = "ml_run"
    /\ rlRunning[t]
    /\ hid_queue # << >>
    /\ hid_queue' = Tail(hid_queue)
    /\ \E tap \in installed, seen \in {Head(hid_queue).ev.source, "none"} :
        /\ tap = Tap("listen", t, tap.mask)
        /\ LET ev == [Head(hid_queue).ev EXCEPT !.source = seen]
               c == convert(ev, LAST_FLAGS, dead_state)
           IN /\ InMask(ev, tap.mask)
              /\ LAST_FLAGS' = c.LAST_FLAGS
              /\ dead_state' = c.dead_state
              /\ lastInv' = PostedBy(listen_raw_callback(ev, listen_GLOBAL_CALLBACK,
                                                         listen_EVENT_TAP # 0, c.events),
                                     Head(hid_queue).by)
    /\ UNCHANGED << pc, op, ret, callsLeft, envVars,
                    listen_GLOBAL_CALLBACK, grab_GLOBAL_CALLBACK, IS_GRABBED,
                    listen_EVENT_TAP, grab_EVENT_TAP, RUN_LOOP, rlRunning, rlStopped,
                    installed, installs, winVars, quitPosted, cbVars, touchVars, kbVars, grabVars, exitVars, queueVars,
                    MOUSE_EXTRA_INFO, KEYBOARD_EXTRA_INFO, lastSim >>

SimNext ==
    \E t \in Threads :
        \/ set_mouse_extra_info(t) \/ set_keyboard_extra_info(t)
        \/ SimSimulate(t) \/ SimVirtualInput(t)
        \/ SimTapCallback(t)

SimSpec == SimInit /\ [][SimNext]_vars

(***************************************************************************)
(* C13 - C15: what simulate posts.                                         *)
(***************************************************************************)
\* C13: every event that simulate posted while the session is live is handed to
\* the session's callback with is_synthetic true, whatever the configured
\* extra-info words are.
C13_SimulatedIsSynthetic ==
    (lastInv.kind = "tap" /\ lastInv.by = "simulate") =>
        /\ lastInv.delivered # << >>
        /\ \A i \in 1..Len(lastInv.delivered) : lastInv.delivered[i].is_synthetic

\* C14: an event that simulate or VirtualInput::simulate posts carries the
\* extra-info word configured for its device class: KEYBOARD_EXTRA_INFO for
\* a keyboard event, MOUSE_EXTRA_INFO for a mouse event.
C14_PostedCarriesClassWord ==
    [][Len(hid_queue') > Len(hid_queue) =>
        LET e == hid_queue'[Len(hid_queue')]
        IN e.ev.extra_data = IF e.class = "keyboard" THEN KEYBOARD_EXTRA_INFO
                             ELSE MOUSE_EXTRA_INFO]_vars

\* C15: simulate and VirtualInput::simulate answer SimulateError for every raw
\* event type, and a call that answers SimulateError has posted nothing.
C15_RawNotSynthesizable ==
    lastSim # NoSim =>
        /\ lastSim.kind \in RawKinds => lastSim.ret = "SimulateError"
        /\ lastSim.ret = "SimulateError" => lastSim.posted = 0

\* VirtualInput::simulate was refused for a raw event type, after an earlier
\* event was posted and handed to the session; nothing is left in the queue
C15_Witness ==
    /\ lastSim # NoSim
    /\ lastSim.call = "VirtualInput"
    /\ lastSim.kind = "WheelRaw"
    /\ lastSim.ret = "SimulateError"
    /\ hid_queue = << >>
    /\ lastInv.kind = "tap"

(***************************************************************************)
(* C16: FlagsChanged events.                                               *)
(***************************************************************************)
ModifierBits == {NSEventModifierFlagShift, NSEventModifierFlagControl,
                 NSEventModifierFlagCommand}

\* the flag word new holds every modifier bit of old and at least one more
AddsBits(old, new) ==
    /\ new # old
    /\ \A b \in ModifierBits : HasBit(old, b) => HasBit(new, b)

\* the tap invocation recorded in inv converted a FlagsChanged event whose
\* keycode could be read
FlagsChangedConverted(inv) ==
    /\ inv.kind = "tap"
    /\ inv.inType = "FlagsChanged"
    /\ ~inv.inNull
    /\ inv.inCode # "unreadable"

\* the invocation handed over exactly the raw and the cooked event of the kind
\* for the key made from the event's keycode
YieldsKey(inv, raw, cooked) ==
    /\ Kinds(inv.delivered) = << raw, cooked >>
    /\ \A i \in 1..2 : inv.delivered[i].key = inv.inCode

\* C16: LAST_FLAGS starts at 0 and holds the flag word of the previous
\* FlagsChanged event; an event whose word adds modifier bits to it yields
\* KeyPress of the event's key, an event whose word removes bits yields
\* KeyRelease of the event's key (so 0, Shift, Shift|Command, Shift, 0 yields
\* press Shift, press Command, release Command, release Shift).
C16_FlagsChangedPressRelease ==
    [][FlagsChangedConverted(lastInv') =>
        /\ AddsBits(LAST_FLAGS, lastInv'.inFlags) =>
                YieldsKey(lastInv', "KeyPressRaw", "KeyPress")
        /\ AddsBits(lastInv'.inFlags, LAST_FLAGS) =>
                YieldsKey(lastInv', "KeyReleaseRaw", "KeyRelease")
        /\ LAST_FLAGS' = lastInv'.inFlags]_vars

\* a FlagsChanged event of the Command key whose word is Shift alone was
\* reported as the release of that key, as in the third step of the sequence
\* 0, Shift, Shift|Command, Shift, 0
C16_Witness ==
    /\ FlagsChangedConverted(lastInv)
    /\ lastInv.inCode = "kVK_Command"
    /\ lastInv.inFlags = NSEventModifierFlagShift
    /\ LAST_FLAGS = NSEventModifierFlagShift
    /\ YieldsKey(lastInv, "KeyReleaseRaw", "KeyRelease")

(***************************************************************************)
(* C17: the unicode descriptor of a key press.                             *)
(***************************************************************************)
\* the unicode descriptors (Some(UnicodeInfo)) among the events that the last
\* tap invocation converted
UnicodeInfos ==
    IF lastInv.kind # "tap" THEN {}
    ELSE {lastInv.converted[i].unicode : i \in 1..Len(lastInv.converted)}
            \ {NoUnicode}

\* C17: a unicode descriptor made by the macOS translator with is_dead set has
\* no code units and no name; one with is_dead unset has between 1 and 4
\* (BUF_LEN) code units.
C17_DeadKeyDescriptor ==
    \A u \in UnicodeInfos :
        /\ u.some
        /\ u.is_dead => u.length = 0 /\ ~u.named
        /\ ~u.is_dead => u.length >= 1 /\ u.length <= BUF_LEN

\* a dead key was pressed: its KeyPress was handed over with a dead descriptor
\* and the translator's dead-key state is kept for the next key
C17_Witness ==
    /\ lastInv.kind = "tap"
    /\ dead_state # 0
    /\ \E i \in 1..Len(lastInv.delivered) :
        /\ lastInv.delivered[i].kind = "KeyPress"
        /\ lastInv.delivered[i].unicode.some
        /\ lastInv.delivered[i].unicode.is_dead

(***************************************************************************)
(* C18: keyboard-only capture.                                             *)
(***************************************************************************)
PointerKinds == {"ButtonPress", "ButtonRelease", "MouseMove", "Wheel",
                 "ButtonPressRaw", "ButtonReleaseRaw", "MouseMoveRaw", "WheelRaw"}

\* C18: with KEYBOARD_ONLY set, no session holds a pointer hook or a tap whose
\* mask has pointer bits, and no callback is handed a button, mouse-move or
\* wheel event.
C18_KeyboardOnlyNoPointer ==
    keyboardOnly =>
        /\ \A h \in installed :
            /\ h.dev # "mouse"
            /\ h.dev = "tap" => h.mask = "keyboard"
        /\ \A i \in 1..Len(DeliveredKinds(lastInv)) :
            DeliveredKinds(lastInv)[i] \notin PointerKinds

(***************************************************************************)
(* The raw callbacks statement by statement: the keyboard-state lock, the  *)
(* callback lock and the user callback, on the thread of a live session.   *)
(* frames[t] is the stack of raw-callback invocations of thread t: an      *)
(* invocation is nested in another when the user callback of the outer one *)
(* lets the thread dispatch events again.                                  *)
(***************************************************************************)
\* the deepest nesting of invocations on one thread
MaxDepth == 2
\* the most events one invocation hands over (the length of convert's list)
MaxBatch == 2

\* a state of Spec: thread 1 has called listen or grab on Windows, both hooks
\* (and for listen the Raw Input window) are set up and the thread sits in its
\* message loop; nothing else has been called
WinSessionLive(m) ==
    /\ platform = "windows"
    /\ keyboardOnly = FALSE
    /\ permissions = AllGranted
    /\ callsLeft = 0
    /\ eventsLeft = MaxEvents
    /\ pc = [t \in Threads |-> IF t = 1 THEN (IF m = "listen" THEN "wl_loop" ELSE "wg_loop")
                                ELSE "idle"]
    /\ op = [t \in Threads |-> IF t = 1 THEN m ELSE "none"]
    /\ ret = [t \in Threads |-> "none"]
    /\ listen_GLOBAL_CALLBACK = (IF m = "listen" THEN 1 ELSE 0)
    /\ grab_GLOBAL_CALLBACK = (IF m = "grab" THEN 1 ELSE 0)
    /\ IS_GRABBED = FALSE
    /\ listen_EVENT_TAP = 0
    /\ grab_EVENT_TAP = 0
    /\ RUN_LOOP = 0
    /\ rlRunning = [t \in Threads |-> FALSE]
    /\ rlStopped = [t \in Threads |-> FALSE]
    /\ installed = {Hook(m, "keyboard", 1), Hook(m, "mouse", 1)}
    /\ installs = [k \in {"listen", "grab"} |-> IF k = m THEN 1 ELSE 0]
    /\ LAST_FLAGS = 0
    /\ dead_state = 0
    /\ CUR_HOOK_THREAD_ID = (IF m = "grab" THEN 1 ELSE 0)
    /\ hook_keyboard = [t \in Threads |-> IF m = "grab" /\ t = 1 THEN 1 ELSE 0]
    /\ hook_mouse = [t \in Threads |-> IF m = "grab" /\ t = 1 THEN 1 ELSE 0]
    /\ raw_input_hwnd = (IF m = "listen" THEN 1 ELSE 0)
    /\ msgq = [t \in Threads |-> << >>]
    /\ quitPosted = 0
    /\ lastInv = NoInv
    /\ MOUSE_EXTRA_INFO = 0
    /\ KEYBOARD_EXTRA_INFO = 0
    /\ hid_queue = << >>
    /\ lastSim = NoSim
    /\ frames = [t \in Threads |-> << >>]
    /\ keyboard_mutex = 0
    /\ callback_mutex = 0
    /\ TOUCH_ACTIVE = FALSE
    /\ LAST_CONTACT_COUNT = 0
    /\ LAST_TOUCH_X = 0
    /\ LAST_TOUCH_Y = 0
    /\ lastReport = NoReport
    /\ keyboard = Keyboard_new
    /\ lastAdd = NoAdd
    /\ keymap = NoKeymap("kKeyboardANSI", "kVK_ANSI_A")
    /\ GET_KEY_UNICODE = TRUE
    /\ cur_hook_mutex = 0
    /\ lastExit = NoExit
    /\ main_thread = 2
    /\ main_queue = << >>
    /\ rx = NoWait

CallbackInit ==
    \E m \in {"listen", "grab"} : MacSessionLive(m, FALSE) \/ WinSessionLive(m)

\* the raw callbacks the OS can enter on thread t: the tap callback of a macOS
\* session, the hook callback of a Windows session, and window_proc with
\* WM_INPUT for a Windows listen session that registered Raw Input
PathsOf(t) ==
    IF pc[t] = "ml_run" /\ rlRunning[t] THEN {"mac_listen"}
    ELSE IF pc[t] = "mg_run" /\ rlRunning[t] THEN {"mac_grab"}
    ELSE IF pc[t] = "wg_loop" THEN {"win_grab"}
    ELSE IF pc[t] = "wl_loop"
    THEN {"win_listen_hook"} \cup (IF raw_input_hwnd = t THEN {"win_listen_input"} ELSE {})
    ELSE {}

\* the devices whose events reach the raw callback of the path on thread t
DevicesOf(t, path) ==
    IF path \in {"mac_listen", "mac_grab"} THEN {"tap"}
    ELSE IF path = "win_listen_input" THEN {"raw_input"}
    ELSE {h.dev : h \in {g \in installed : g.thread = t /\ g.dev \in {"keyboard", "mouse"}}}

\* one invocation: where it stands, how many events it still hands over under
\* the callback lock it is about to take or holds (left), and how many further
\* emit_raw_event calls follow (more)
Frame(path, dev, at, left, more) ==
    [path |-> path, dev |-> dev, pc |-> at, left |-> left, more |-> more]

Top(t) == frames[t][Len(frames[t])]
SetTop(t, f) == [frames EXCEPT ![t] = [@ EXCEPT ![Len(@)] = f]]
At(t, at) == frames[t] # << >> /\ Top(t).pc = at

\* the owner tag of the invocation on top of thread t's stack
Holder(t) == t * (MaxDepth + 1) + Len(frames[t])

\* a lock that is handed out although it is held
MutexLock_barging(mutex, who) == [ok |-> TRUE, mutex |-> who]

\* parking_lot Mutex::lock: taken when free; a holder that asks again waits
\* like anyone else
MutexLock(mutex, who) ==
    IF mutex = 0 THEN [ok |-> TRUE, mutex |-> who] ELSE [ok |-> FALSE, mutex |-> mutex]

\* a guard that stays alive until the raw callback returns
drop_guard_at_return(mutex, who) == mutex

\* drop(guard), or the end of the guard's scope, before the callback is fetched
drop_guard(mutex, who) == IF mutex = who THEN 0 ELSE mutex

cbFrame == << pc, op, ret, callsLeft, envVars, shared, quitPosted, lastInv, simVars,
             touchVars, kbVars, grabVars, exitVars, queueVars >>

\* the OS enters a raw callback on thread t: the thread waits in its run loop
\* or message loop, or its user callback dispatches events
CbInvoke(t) ==
    /\ IF frames[t] = << >> THEN TRUE ELSE Top(t).pc = "in_cb"
    /\ Len(frames[t]) < MaxDepth
    /\ \E path \in PathsOf(t) : \E dev \in DevicesOf(t, path) :
        frames' = [frames EXCEPT ![t] = Append(@, Frame(path, dev, "start", 0, 0))]
    /\ UNCHANGED << cbFrame, keyboard_mutex, callback_mutex >>

\* the statements before any lock: the early returns (tap disabled, null
\* event, code # HC_ACTION, convert answers None, WM_INPUT without an event),
\* and the choice of the way on
CbStart(t) ==
    /\ At(t, "start")
    /\ \E skip \in BOOLEAN, unicode \in BOOLEAN, n \in 1..MaxBatch :
        LET f == Top(t)
        IN frames' = SetTop(t,
            IF skip THEN [f EXCEPT !.pc = "return"]
            ELSE IF f.path \in {"mac_listen", "mac_grab"} THEN [f EXCEPT !.pc = "kbd_lock"]
            ELSE IF f.path = "win_grab"
            THEN \* KEYBOARD is locked for a KeyPress when GET_KEY_UNICODE is set
                 [f EXCEPT !.pc = IF unicode /\ f.dev = "keyboard" THEN "kbd_lock"
                                  ELSE "cb_lock",
                           !.left = 1]
            ELSE IF f.path = "win_listen_hook" THEN [f EXCEPT !.pc = "cb_lock", !.left = 1]
            ELSE [f EXCEPT !.pc = "cb_lock", !.left = 1, !.more = n - 1])
    /\ UNCHANGED << cbFrame, keyboard_mutex, callback_mutex >>

\* KEYBOARD_STATE.lock() / KEYBOARD.lock()
CbLockKeyboard(t) ==
    /\ At(t, "kbd_lock")
    /\ MutexLock(keyboard_mutex, Holder(t)).ok
    /\ keyboard_mutex' = MutexLock(keyboard_mutex, Holder(t)).mutex
    /\ frames' = SetTop(t, [Top(t) EXCEPT !.pc = "kbd_held"])
    /\ UNCHANGED << cbFrame, callback_mutex >>

\* under the keyboard lock: convert (macOS; its list has n events, or the
\* keyboard state is None and the callback returns), get_unicode (Windows
\* grab); then the guard is dropped
CbConverted(t) ==
    /\ At(t, "kbd_held")
    /\ keyboard_mutex' = drop_guard(keyboard_mutex, Holder(t))
    /\ \E some \in BOOLEAN, n \in 0..MaxBatch :
        LET f == Top(t)
        IN frames' = SetTop(t,
            IF f.path = "win_grab" THEN [f EXCEPT !.pc = "cb_lock"]
            ELSE IF some THEN [f EXCEPT !.pc = "cb_lock", !.left = n]
            ELSE [f EXCEPT !.pc = "return"])
    /\ UNCHANGED << cbFrame, callback_mutex >>

\* GLOBAL_CALLBACK.get() and callback_mutex.lock(); the first event is handed
\* to the user callback
CbLockCallback(t) ==
    /\ At(t, "cb_lock")
    /\ MutexLock(callback_mutex, Holder(t)).ok
    /\ callback_mutex' = MutexLock(callback_mutex, Holder(t)).mutex
    /\ frames' = SetTop(t, [Top(t) EXCEPT !.pc = IF Top(t).left > 0 THEN "in_cb"
                                                ELSE "cb_unlock"])
    /\ UNCHANGED << cbFrame, keyboard_mutex >>

\* the user callback returns; the loop over the events hands over the next one
CbCallbackReturns(t) ==
    /\ At(t, "in_cb")
    /\ frames' = SetTop(t, [Top(t) EXCEPT !.left = @ - 1,
                                          !.pc = IF Top(t).left > 1 THEN "in_cb"
                                                ELSE "cb_unlock"])
    /\ UNCHANGED << cbFrame, keyboard_mutex, callback_mutex >>

\* the callback guard goes out of scope; handle_raw_input goes on to its next
\* emit_raw_event
CbUnlockCallback(t) ==
    /\ At(t, "cb_unlock")
    /\ callback_mutex' = drop_guard(callback_mutex, Holder(t))
    /\ frames' = SetTop(t, IF Top(t).more > 0
                           THEN [Top(t) EXCEPT !.pc = "cb_lock", !.left = 1, !.more = @ - 1]
                           ELSE [Top(t) EXCEPT !.pc = "return"])
    /\ UNCHANGED << cbFrame, keyboard_mutex >>

\* the raw callback returns to the OS; every guard still alive is dropped
CbReturn(t) ==
    /\ At(t, "return")
    /\ keyboard_mutex' = (IF keyboard_mutex = Holder(t) THEN 0 ELSE keyboard_mutex)
    /\ callback_mutex' = (IF callback_mutex = Holder(t) THEN 0 ELSE callback_mutex)
    /\ frames' = [frames EXCEPT ![t] = SubSeq(@, 1, Len(@) - 1)]
    /\ UNCHANGED cbFrame

CallbackNext ==
    \E t \in Threads :
        \/ CbInvoke(t) \/ CbStart(t) \/ CbLockKeyboard(t) \/ CbConverted(t)
        \/ CbLockCallback(t) \/ CbCallbackReturns(t) \/ CbUnlockCallback(t)
        \/ CbReturn(t)

CallbackSpec == CallbackInit /\ [][CallbackNext]_vars

(***************************************************************************)
(* C19, C20: the locks around the user callback.                           *)
(***************************************************************************)
\* the invocations, as << thread, depth >>, whose user callback is executing
InCallback ==
    {<< t, d >> \in Threads \X (1..MaxDepth) :
        d <= Len(frames[t]) /\ frames[t][d].pc = "in_cb"}

\* the owner tags of the invocation at depth d of thread t's stack and of the
\* invocations it is nested in
HoldersUpTo(t, d) == {t * (MaxDepth + 1) + e : e \in 1..d}

\* C19: while an invocation runs the user callback, the keyboard-state mutex
\* is not held by that invocation nor by one it is nested in: the guard taken
\* for conversion or unicode lookup is dropped before the callback is called.
C19_NoKeyboardLockInCallback ==
    \A x \in InCallback : keyboard_mutex \notin HoldersUpTo(x[1], x[2])

\* a macOS grab invocation took the keyboard lock, converted, and now runs the
\* user callback on its first event of two with the keyboard lock free
C19_Witness ==
    /\ platform = "macos"
    /\ At(1, "in_cb")
    /\ Top(1).path = "mac_grab"
    /\ Top(1).left = 2
    /\ keyboard_mutex = 0
    /\ callback_mutex = Holder(1)

\* C20: at most one invocation of a session's user callback is in progress,
\* whichever of the hooks, the tap or WM_INPUT the events come from; an
\* invocation that arrives meanwhile waits for the callback lock.
C20_OneCallbackAtATime ==
    /\ Cardinality(InCallback) <= 1
    /\ \A x \in InCallback : callback_mutex = x[1] * (MaxDepth + 1) + x[2]

\* the user callback of a Windows listen session runs for a hook event and lets
\* the thread dispatch messages; the WM_INPUT invocation nested in it waits for
\* the callback lock
C20_Witness ==
    /\ platform = "windows"
    /\ Len(frames[1]) = 2
    /\ frames[1][1].path = "win_listen_hook"
    /\ frames[1][1].pc = "in_cb"
    /\ frames[1][2].path = "win_listen_input"
    /\ frames[1][2].pc = "cb_lock"

(***************************************************************************)
(* C21: a key-down whose translation fails.                                *)
(***************************************************************************)
\* the tap invocation recorded in inv converted a key-down for which
\* create_unicode_for_key asked the translator: the keycode is readable and
\* not one of the skipped ones, and neither Command nor Control is held
KeyDownTranslated(inv) ==
    /\ inv.kind = "tap"
    /\ inv.inType = "KeyDown"
    /\ ~inv.inNull
    /\ inv.inCode \notin {"unreadable", "kVK_Shift"}
    /\ ~HasBit(inv.inFlags, NSEventModifierFlagCommand)
    /\ ~HasBit(inv.inFlags, NSEventModifierFlagControl)

\* the translation gave nothing: no answer within the wait, or no layout
TranslationFailed(inv) == inv.inTimeout \/ ~inv.inLayout

\* the key-down was handed over as KeyPressRaw then KeyPress, both without
\* unicode
DeliveredWithoutUnicode(inv) ==
    /\ Kinds(inv.delivered) = << "KeyPressRaw", "KeyPress" >>
    /\ \A i \in 1..2 : inv.delivered[i].unicode = NoUnicode
                       /\ inv.delivered[i].key = inv.inCode

\* C21: when the translation of a key-down does not answer within the wait, or
\* no layout is available, dead_state is left as it was and the key-down is
\* still handed over as KeyPressRaw then KeyPress with unicode none.
C21_TranslationFailureDegrades ==
    [][(KeyDownTranslated(lastInv') /\ TranslationFailed(lastInv')) =>
        /\ dead_state' = dead_state
        /\ DeliveredWithoutUnicode(lastInv')]_vars

\* a dead key is pending and the translation of the next key-down timed out:
\* the key-down was handed over without unicode and the dead key still pends
C21_Witness ==
    /\ KeyDownTranslated(lastInv)
    /\ lastInv.inTimeout
    /\ dead_state # 0
    /\ DeliveredWithoutUnicode(lastInv)

(***************************************************************************)
(* Windows: the touchpad gesture tracking of listen.rs, for a listen       *)
(* session whose hidden window receives the HID reports.                   *)
(***************************************************************************)
\* the movement per axis up to which a two-finger report is taken for noise
NOISE_THRESHOLD == 5
\* the coordinates a report can carry: from BaseCoord, at the offsets 0, the
\* threshold, one more, twice the threshold, and MaxTravel
BaseCoord == 500
MaxTravel == 20
Coords == {BaseCoord + o : o \in {0, NOISE_THRESHOLD, NOISE_THRESHOLD + 1,
                                  2 * NOISE_THRESHOLD, MaxTravel}}
\* the largest contact count a report carries
MaxContacts == 3

\* one HID report as HidP_GetUsageValue reads it: whether the contact count
\* can be read, the count, whether X and Y can be read, and their values
HidReports ==
    {[count_ok |-> FALSE, contact_count |-> 0, xy_ok |-> FALSE,
      x |-> BaseCoord, y |-> BaseCoord]}
    \cup {[count_ok |-> TRUE, contact_count |-> c, xy_ok |-> FALSE,
           x |-> BaseCoord, y |-> BaseCoord] : c \in 0..MaxContacts}
    \cup {[count_ok |-> TRUE, contact_count |-> 2, xy_ok |-> TRUE, x |-> x, y |-> y] :
            x \in Coords, y \in Coords}

abs(n) == IF n < 0 THEN 0 - n ELSE n

\* a filter that lets a movement of exactly the threshold through
meaningful_movement_inclusive(dx, dy) ==
    abs(dx) >= NOISE_THRESHOLD \/ abs(dy) >= NOISE_THRESHOLD

\* dx.abs() > 5 || dy.abs() > 5
meaningful_movement(dx, dy) == abs(dx) > NOISE_THRESHOLD \/ abs(dy) > NOISE_THRESHOLD

\* a branch that leaves the tracking as it is for another contact count
not_two_fingers_keeping(st, contact_count) == st

\* the contact_count != 2 branch: the tracking state it leaves
not_two_fingers(st, contact_count) ==
    [st EXCEPT !.active = IF contact_count = 0 THEN FALSE ELSE @,
               !.count = contact_count]

\* a tracker that moves its stored position only when it reports a scroll
track_position_on_scroll(st, x, y, moved) ==
    IF moved THEN [st EXCEPT !.x = x, !.y = y, !.count = 2]
    ELSE [st EXCEPT !.count = 2]

\* the "Update position" stores of a report inside a gesture
track_position(st, x, y, moved) == [st EXCEPT !.x = x, !.y = y, !.count = 2]

\* WheelRaw { dx * SCROLL_SCALE, -dy * SCROLL_SCALE }, in units of SCROLL_SCALE
\* (one hundredth)
WheelRaw(dx, dy) == [kind |-> "WheelRaw", delta_x |-> dx, delta_y |-> 0 - dy]

\* parse_touchpad_with_hidp on the tracking state st (TOUCH_ACTIVE,
\* LAST_CONTACT_COUNT, LAST_TOUCH_X, LAST_TOUCH_Y): the state it leaves and the
\* deltas it answers (a sequence of none or one)
parse_touchpad_with_hidp(st, r) ==
    IF ~r.count_ok
    THEN [st |-> IF st.active THEN [st EXCEPT !.active = FALSE, !.count = 0] ELSE st,
          deltas |-> << >>]
    ELSE IF r.contact_count # 2
    THEN [st |-> not_two_fingers(st, r.contact_count), deltas |-> << >>]
    ELSE IF ~r.xy_ok
    THEN [st |-> st, deltas |-> << >>]
    ELSE IF st.active /\ st.count = 2
    THEN LET dx == r.x - st.x
             dy == r.y - st.y
         IN [st |-> track_position(st, r.x, r.y, meaningful_movement(dx, dy)),
             deltas |-> IF meaningful_movement(dx, dy) THEN << WheelRaw(dx, dy) >>
                        ELSE << >>]
    ELSE [st |-> [active |-> TRUE, count |-> 2, x |-> r.x, y |-> r.y],
          deltas |-> << >>]

\* handle_raw_hid_input for one report: the events handed to emit_raw_event
handle_raw_hid_input(st, r) ==
    LET p == parse_touchpad_with_hidp(st, r)
    IN [st |-> p.st,
        emitted |-> SelectSeq(p.deltas, LAMBDA d : d.delta_x # 0 \/ d.delta_y # 0)]

\* a two-finger report whose position was read
TwoFingers(r) == r.status = "parsed" /\ r.count_ok /\ r.contact_count = 2 /\ r.xy_ok

\* the record of a handled report: the report, what was emitted, its place in
\* the alternation of reports (seq), the class of the report before it (after),
\* and, for a two-finger report, where the
\* unbroken run of two-finger reports it belongs to began (origin) and whether
\* nothing was emitted in that run so far (quiet)
ReportClass(rec) ==
    IF rec.status = "none" THEN "none"
    ELSE IF ~rec.count_ok \/ rec.contact_count # 2 THEN "reset"
    ELSE IF rec.xy_ok THEN "two" ELSE "unread"

ReportRecord(prev, r, emitted) ==
    LET continues == r.count_ok /\ r.contact_count = 2 /\ r.xy_ok /\ TwoFingers(prev)
    IN [status |-> "parsed", seq |-> 1 - prev.seq,
        count_ok |-> r.count_ok, contact_count |-> r.contact_count,
        xy_ok |-> r.xy_ok, x |-> r.x, y |-> r.y, emitted |-> emitted,
        after |-> ReportClass(prev),
        origin |-> IF continues THEN prev.origin ELSE << r.x, r.y >>,
        quiet |-> IF continues THEN prev.quiet /\ emitted = << >> ELSE emitted = << >>]

TouchInit == WinSessionLive("listen")

\* window_proc gets WM_INPUT with one HID report on the thread of the listen
\* session; handle_raw_input and handle_raw_hid_input return early when the
\* data cannot be read (ok = FALSE), and nothing changes
TouchReport(t) ==
    /\ platform = "windows"
    /\ pc[t] = "wl_loop"
    /\ raw_input_hwnd = t
    /\ \E ok \in BOOLEAN, r \in HidReports :
        IF ~ok THEN UNCHANGED touchVars
        ELSE LET h == handle_raw_hid_input(
                        [active |-> TOUCH_ACTIVE, count |-> LAST_CONTACT_COUNT,
                         x |-> LAST_TOUCH_X, y |-> LAST_TOUCH_Y], r)
             IN /\ TOUCH_ACTIVE' = h.st.active
                /\ LAST_CONTACT_COUNT' = h.st.count
                /\ LAST_TOUCH_X' = h.st.x
                /\ LAST_TOUCH_Y' = h.st.y
                /\ lastReport' = ReportRecord(lastReport, r, h.emitted)
    /\ UNCHANGED << pc, op, ret, callsLeft, envVars, shared, quitPosted, lastInv,
                    simVars, cbVars, kbVars, grabVars, exitVars, queueVars >>

TouchNext == \E t \in Threads : TouchReport(t)

TouchSpec == TouchInit /\ [][TouchNext]_vars

\* a step that handles a report
ReportHandled == lastReport'.seq # lastReport.seq

\* the WheelRaw events a two-finger report at (x, y) is to emit when the
\* two-finger report before it was at (px, py)
ScrollFor(px, py, x, y) ==
    IF abs(x - px) > NOISE_THRESHOLD \/ abs(y - py) > NOISE_THRESHOLD
    THEN << [kind |-> "WheelRaw", delta_x |-> x - px, delta_y |-> py - y] >>
    ELSE << >>

\* C22: the first two-finger report emits nothing and stores its position; a
\* two-finger report that follows a two-finger report emits exactly one
\* WheelRaw { dx * 0.01, -dy * 0.01 } when |dx| > 5 or |dy| > 5, with dx and dy
\* the movement since the report before, and nothing otherwise.
C22_TwoFingerScroll ==
    [][(ReportHandled /\ TwoFingers(lastReport')) =>
          /\ lastReport.status = "none" =>
                /\ lastReport'.emitted = << >>
                /\ TOUCH_ACTIVE' /\ LAST_CONTACT_COUNT' = 2
                /\ LAST_TOUCH_X' = lastReport'.x /\ LAST_TOUCH_Y' = lastReport'.y
          /\ TwoFingers(lastReport) =>
                lastReport'.emitted =
                    ScrollFor(lastReport.x, lastReport.y, lastReport'.x, lastReport'.y)]_vars

\* the report at (500, 520) after the one at (500, 500) has emitted
\* WheelRaw { 0.0, -0.20 }
C22_Witness ==
    /\ TwoFingers(lastReport) /\ lastReport.after = "two"
    /\ lastReport.x = BaseCoord /\ lastReport.y = BaseCoord + MaxTravel
    /\ lastReport.origin = << BaseCoord, BaseCoord >>
    /\ lastReport.emitted = << [kind |-> "WheelRaw", delta_x |-> 0, delta_y |-> 0 - MaxTravel] >>

\* C28: a two-finger report that comes after a report whose contact count is
\* not 2 or cannot be read emits no WheelRaw whatever its position, and starts
\* a gesture at its own position.
C28_ResetStartsNewGesture ==
    [][(ReportHandled /\ TwoFingers(lastReport') /\ ReportClass(lastReport) = "reset") =>
          /\ lastReport'.emitted = << >>
          /\ TOUCH_ACTIVE' /\ LAST_CONTACT_COUNT' = 2
          /\ LAST_TOUCH_X' = lastReport'.x /\ LAST_TOUCH_Y' = lastReport'.y]_vars

\* a two-finger report after a reset, further than the threshold from where
\* the run of two-finger reports before the reset would have been continued
C28_Witness ==
    /\ TwoFingers(lastReport) /\ lastReport.after = "reset"
    /\ lastReport.y = BaseCoord + MaxTravel
    /\ lastReport.origin = << lastReport.x, lastReport.y >>
    /\ lastReport.emitted = << >>
    /\ TOUCH_ACTIVE /\ LAST_TOUCH_Y = lastReport.y

\* C29: every two-finger report replaces the stored position, also when it
\* moved at most the threshold, so a run of two-finger reports each moving at
\* most 5 per axis from the one before emits nothing, however far it gets.
C29_SmallStepsNeverScroll ==
    [][(ReportHandled /\ TwoFingers(lastReport')) =>
          /\ LAST_TOUCH_X' = lastReport'.x /\ LAST_TOUCH_Y' = lastReport'.y
          /\ (/\ TwoFingers(lastReport) /\ lastReport.quiet
              /\ abs(lastReport'.x - lastReport.x) <= NOISE_THRESHOLD
              /\ abs(lastReport'.y - lastReport.y) <= NOISE_THRESHOLD)
             => lastReport'.quiet /\ lastReport'.emitted = << >>]_vars

\* a run of two-finger reports has got twice the threshold away from where it
\* began and has emitted nothing
C29_Witness ==
    /\ TwoFingers(lastReport) /\ lastReport.after = "two" /\ lastReport.quiet
    /\ lastReport.y - lastReport.origin[2] = 2 * NOISE_THRESHOLD
    /\ LAST_TOUCH_Y = lastReport.y

(***************************************************************************)
(* C23: the pair of events of one FlagsChanged event.                      *)
(***************************************************************************)
\* both events of the invocation carry no unicode descriptor
WithoutUnicode(inv) ==
    \A i \in 1..Len(inv.delivered) : inv.delivered[i].unicode = NoUnicode

\* C23: a FlagsChanged event with flags f and a readable keycode yields exactly
\* one raw/cooked pair for its key: KeyReleaseRaw then KeyRelease when f is
\* less than LAST_FLAGS, KeyPressRaw then KeyPress otherwise, also when f
\* equals LAST_FLAGS; both events carry no unicode descriptor.
C23_FlagsChangedOnePair ==
    [][FlagsChangedConverted(lastInv') =>
        /\ IF lastInv'.inFlags < LAST_FLAGS
           THEN YieldsKey(lastInv', "KeyReleaseRaw", "KeyRelease")
           ELSE YieldsKey(lastInv', "KeyPressRaw", "KeyPress")
        /\ WithoutUnicode(lastInv')]_vars

\* a FlagsChanged event with the flag word 0 was reported as a press, which is
\* the case of a word equal to LAST_FLAGS (no word is less than 0)
C23_Witness ==
    /\ FlagsChangedConverted(lastInv)
    /\ lastInv.inFlags = 0
    /\ LAST_FLAGS = 0
    /\ YieldsKey(lastInv, "KeyPressRaw", "KeyPress")
    /\ WithoutUnicode(lastInv)

(***************************************************************************)
(* C24: the stores to LAST_FLAGS.                                          *)
(***************************************************************************)
\* the tap invocation recorded in inv handed an event of the type ty to convert
TapProcessed(inv, ty) ==
    /\ inv.kind = "tap"
    /\ ~inv.inNull
    /\ inv.inType = ty

\* C24: after a FlagsChanged event has been processed LAST_FLAGS equals the
\* event's flags, also when its keycode field cannot be read and no key event
\* is made; an event of another type leaves LAST_FLAGS as it was.
C24_LastFlagsUnconditional ==
    [][/\ TapProcessed(lastInv', "FlagsChanged") => LAST_FLAGS' = lastInv'.inFlags
       /\ (lastInv'.kind = "tap" /\ lastInv'.inType # "FlagsChanged")
            => LAST_FLAGS' = LAST_FLAGS]_vars

(***************************************************************************)
(* C25: tap invocations that carry no event to convert.                    *)
(***************************************************************************)
\* K_CG_EVENT_TAP_DISABLED_BY_TIMEOUT and K_CG_EVENT_TAP_DISABLED_BY_USER_INPUT
TapDisabledTypes == {"TapDisabledByTimeout", "TapDisabledByUserInput"}

\* EVENT_TAP of the module whose raw_callback ran
StoredTap(mode) == IF mode = "listen" THEN listen_EVENT_TAP ELSE grab_EVENT_TAP

\* a step in which a tap was invoked
TapInvoked == eventsLeft' < eventsLeft /\ lastInv'.kind = "tap"

\* C25: an invocation with a tap-disabled type re-enables the stored tap when
\* one is stored, returns a null event, calls no user callback and leaves the
\* keyboard state and LAST_FLAGS as they were; an invocation with the null type
\* or a null event pointer returns the event as received and calls no callback.
C25_DisabledAndNullInvocations ==
    [][TapInvoked =>
        /\ lastInv'.inType \in TapDisabledTypes =>
            /\ lastInv'.reenabled = (StoredTap(lastInv'.mode) # 0)
            /\ lastInv'.retPtr = "null"
            /\ lastInv'.delivered = << >> /\ lastInv'.answers = << >>
            /\ LAST_FLAGS' = LAST_FLAGS /\ dead_state' = dead_state
        /\ (lastInv'.inType \notin TapDisabledTypes
                /\ (lastInv'.inType = "Null" \/ lastInv'.inNull)) =>
            /\ lastInv'.retPtr = "event"
            /\ lastInv'.outType = lastInv'.inType
            /\ ~lastInv'.reenabled
            /\ lastInv'.delivered = << >> /\ lastInv'.answers = << >>]_vars

\* a tap-disabled invocation re-enabled the tap and returned null while
\* LAST_FLAGS held the word of an earlier FlagsChanged event
C25_Witness ==
    /\ lastInv.kind = "tap"
    /\ lastInv.inType = "TapDisabledByUserInput"
    /\ lastInv.reenabled
    /\ lastInv.retPtr = "null"
    /\ lastInv.delivered = << >>
    /\ LAST_FLAGS # 0

(***************************************************************************)
(* C26: listen and grab without the macOS permissions.                     *)
(***************************************************************************)
\* thread t is at the permission checks of listen or of grab
AtPermissionChecks(t) == pc[t] \in {"ml_setup", "mg_setup"}

\* C26: when the Accessibility check or the Input Monitoring check fails,
\* listen and grab return EventTapError: no tap is created, no tap pointer and
\* no run-loop pointer is stored, no run loop is entered, and is_grabbed() is
\* still false.
C26_PermissionFailure ==
    [][\A t \in Threads :
        (/\ AtPermissionChecks(t)
         /\ ~(permissions.accessibility /\ permissions.input_monitoring)
         /\ pc'[t] # pc[t]) =>
            /\ pc'[t] = "idle" /\ ret'[t] = "EventTapError"
            /\ installed' = installed /\ installs' = installs
            /\ listen_EVENT_TAP' = listen_EVENT_TAP /\ grab_EVENT_TAP' = grab_EVENT_TAP
            /\ RUN_LOOP' = RUN_LOOP
            /\ rlRunning' = rlRunning /\ ~rlRunning'[t]
            /\ ~IS_GRABBED']_vars

\* grab came back with EventTapError with Input Monitoring denied, and nothing
\* of a session exists
C26_Witness ==
    /\ platform = "macos"
    /\ permissions.accessibility /\ ~permissions.input_monitoring
    /\ \E t \in Threads :
        /\ pc[t] = "idle" /\ op[t] = "grab" /\ ret[t] = "EventTapError"
    /\ installed = {} /\ grab_EVENT_TAP = 0 /\ RUN_LOOP = 0 /\ ~IS_GRABBED

(***************************************************************************)
(* C27: Windows grab when a hook cannot be installed.                      *)
(***************************************************************************)
\* the hooks of a grab session that the OS holds
GrabHooks(S) == {h \in S : h.dev \in {"keyboard", "mouse"} /\ h.mode = "grab"}

\* C27: when the mouse hook cannot be installed after the keyboard hook was,
\* the keyboard hook is uninstalled before grab returns MouseHookError, the
\* hook thread id stays 0 and no message loop is entered; when the keyboard
\* hook cannot be installed grab returns KeyHookError and no hook is installed.
C27_HookFailureUnwinds ==
    [][\A t \in Threads :
        (pc[t] = "wg_hook" /\ ret'[t] \in {"MouseHookError", "KeyHookError"}) =>
            /\ pc'[t] = "idle"
            /\ GrabHooks(installed') = {}
            /\ CUR_HOOK_THREAD_ID' = 0]_vars

(***************************************************************************)
(* C30: the dead-key state from one translation to the next.               *)
(***************************************************************************)
\* the tap invocation recorded in inv made a key translation that completed
TranslationCompleted(inv) == KeyDownTranslated(inv) /\ ~inv.inTimeout

\* the descriptor of a pending dead key
DeadDescriptor == [some |-> TRUE, length |-> 0, named |-> FALSE, is_dead |-> TRUE]

\* the unicode descriptor the cooked event of the invocation carries
CookedUnicode(inv) == inv.delivered[Len(inv.delivered)].unicode

\* C30: a completed translation is handed the dead_state the one before left
\* and stores its result back; with length 0 it gives { name none, no code
\* units, is_dead true } when the result is non-zero and none when it is zero;
\* with text it gives a descriptor with is_dead false, also after a dead key.
C30_DeadKeyThreading ==
    [][(TapInvoked /\ TranslationCompleted(lastInv')) =>
        /\ lastInv'.passed = dead_state
        /\ dead_state' = IF lastInv'.inOs.layout THEN lastInv'.inOs.dead ELSE dead_state
        /\ (lastInv'.inOs.layout /\ lastInv'.inOs.length = 0) =>
                CookedUnicode(lastInv') =
                    IF dead_state' # 0 THEN DeadDescriptor ELSE NoUnicode
        /\ (lastInv'.inOs.layout /\ lastInv'.inOs.length > 0 /\ ~lastInv'.inOs.c0) =>
                /\ CookedUnicode(lastInv').some
                /\ ~CookedUnicode(lastInv').is_dead
                /\ CookedUnicode(lastInv').length = lastInv'.inOs.length]_vars

\* a key translated while a dead key was pending gave text with is_dead false
\* and cleared the pending state
C30_Witness ==
    /\ TranslationCompleted(lastInv)
    /\ lastInv.passed # 0
    /\ lastInv.inOs.length > 0
    /\ CookedUnicode(lastInv).some /\ ~CookedUnicode(lastInv).is_dead
    /\ dead_state = 0

(***************************************************************************)
(* macOS: key-down events with every answer of the translator, for a       *)
(* listen session.                                                         *)
(***************************************************************************)
\* key-down events of a letter key and of a key convert never translates
\* (kVK_Shift stands for kVK_Shift, kVK_RightShift and kVK_ForwardDelete),
\* with and without Command / Control, and what the translator would answer
KeyDownEvents ==
    {NativeEvent("KeyDown", c, f, FALSE, FALSE, tr) :
        c \in {"kVK_ANSI_A", "kVK_Shift"}, f \in KeyDownFlags, tr \in Translations}

KeyInit == \E ko \in BOOLEAN : MacSessionLive("listen", ko)

\* listen.rs raw_callback for one key-down event
KeyTapCallback(t) ==
    /\ platform = "macos"
    /\ pc[t] = "ml_run"
    /\ rlRunning[t]
    /\ \E tap \in installed, ev \in KeyDownEvents :
        /\ tap = Tap("listen", t, tap.mask)
        /\ LET c == convert(ev, LAST_FLAGS, dead_state)
           IN /\ LAST_FLAGS' = c.LAST_FLAGS
              /\ dead_state' = c.dead_state
              /\ lastInv' = WithTranslation(
                                listen_raw_callback(ev, listen_GLOBAL_CALLBACK,
                                                    listen_EVENT_TAP # 0, c.events),
                                ev, dead_state)
    /\ UNCHANGED << pc, op, ret, callsLeft, envVars,
                    listen_GLOBAL_CALLBACK, grab_GLOBAL_CALLBACK, IS_GRABBED,
                    listen_EVENT_TAP, grab_EVENT_TAP, RUN_LOOP, rlRunning, rlStopped,
                    installed, installs, winVars, simVars, cbVars, touchVars, kbVars, grabVars, exitVars, queueVars >>

KeyNext == \E t \in Threads : KeyTapCallback(t)

KeySpec == KeyInit /\ [][KeyNext]_vars

\* the key-down recorded in inv is one the translator is skipped for
SkipsTranslator(inv) ==
    /\ inv.kind = "tap" /\ inv.inType = "KeyDown" /\ ~inv.inNull
    /\ inv.inCode # "unreadable"
    /\ \/ inv.inCode = "kVK_Shift"
       \/ HasBit(inv.inFlags, NSEventModifierFlagCommand)
       \/ HasBit(inv.inFlags, NSEventModifierFlagControl)

\* C31: for a key-down with Command or Control in its flags, and for a
\* key-down of Shift, RightShift or ForwardDelete, the translator is skipped:
\* unicode is none and dead_state is as before (a pending dead key survives),
\* and the KeyPressRaw / KeyPress pair is still handed over.
C31_TranslatorSkipped ==
    [][SkipsTranslator(lastInv') =>
        /\ dead_state' = dead_state
        /\ Kinds(lastInv'.delivered) = << "KeyPressRaw", "KeyPress" >>
        /\ \A i \in 1..2 : /\ lastInv'.delivered[i].unicode = NoUnicode
                           /\ lastInv'.delivered[i].key = lastInv'.inCode]_vars

\* a key-down with Command, for which the translator would have answered
\* text and cleared the dead-key state, left the pending dead key in place
C31_Witness ==
    /\ SkipsTranslator(lastInv)
    /\ HasBit(lastInv.inFlags, NSEventModifierFlagCommand)
    /\ ~lastInv.inTimeout /\ lastInv.inOs.layout /\ lastInv.inOs.length > 0
    /\ lastInv.inOs.dead = 0
    /\ dead_state # 0
    /\ Kinds(lastInv.delivered) = << "KeyPressRaw", "KeyPress" >>

(***************************************************************************)
(* macOS: the shadow modifier tracking of KeyboardState::add (keyboard.rs) *)
(* on one Keyboard value.                                                  *)
(***************************************************************************)
\* the keys add tells apart, and one class for every other key
ShiftKeys == {"ShiftLeft", "ShiftRight"}
AltKeys == {"Alt", "AltGr"}
AddKeys == ShiftKeys \cup AltKeys \cup {"CapsLock", "Other"}

\* the events add is called with: key presses and releases, and event types
\* that are neither (raw key events and pointer events)
AddEvents ==
    {[kind |-> k, key |-> key] : k \in {"KeyPress", "KeyRelease"}, key \in AddKeys}
    \cup {[kind |-> k, key |-> "Other"] : k \in {"KeyPressRaw", "ButtonPress", "Wheel"}}

\* a modifier state that leaves caps lock out
modifier_state_without_caps(kb) ==
    IF kb.alt /\ kb.shift THEN 10
    ELSE IF kb.alt THEN 8
    ELSE IF kb.shift THEN 2
    ELSE 0

\* Keyboard::modifier_state
modifier_state(kb) ==
    IF kb.alt /\ (kb.shift \/ kb.caps_lock) THEN 10
    ELSE IF kb.alt /\ ~(kb.shift \/ kb.caps_lock) THEN 8
    ELSE IF ~kb.alt /\ (kb.caps_lock \/ kb.shift) THEN 2
    ELSE 0

\* the word recorded for a call that made no translation
NoModifierState == 255

\* an add that clears shift for the left shift key only
Keyboard_add_left_only(kb, ev, coded, os) ==
    LET none == [keyboard |-> kb, ret |-> NoUnicode, modifier |-> NoModifierState]
    IN IF ev.kind = "KeyPress" /\ ev.key \in ShiftKeys
       THEN [none EXCEPT !.keyboard.shift = TRUE]
       ELSE IF ev.kind = "KeyRelease" /\ ev.key = "ShiftLeft"
       THEN [none EXCEPT !.keyboard.shift = FALSE]
       ELSE none

\* KeyboardState::add for Keyboard. coded: code_from_key knows a keycode for
\* the key; os: what UCKeyTranslate answers. The result holds the Keyboard
\* afterwards, the value returned and the modifier state handed to
\* unicode_from_code
Keyboard_add(kb, ev, coded, os) ==
    LET none == [keyboard |-> kb, ret |-> NoUnicode, modifier |-> NoModifierState]
    IN CASE ev.kind = "KeyPress" /\ ev.key \in ShiftKeys ->
                [none EXCEPT !.keyboard.shift = TRUE]
         [] ev.kind = "KeyPress" /\ ev.key \in AltKeys ->
                [none EXCEPT !.keyboard.alt = TRUE]
         [] ev.kind = "KeyPress" /\ ev.key = "CapsLock" ->
                [none EXCEPT !.keyboard.caps_lock = ~kb.caps_lock]
         [] ev.kind = "KeyPress" /\ ev.key = "Other" ->
                IF ~coded THEN none
                ELSE LET u == unicode_from_code_static(os, kb.dead_state)
                     IN [keyboard |-> [kb EXCEPT !.dead_state = u.dead_state],
                         ret |-> u.unicode, modifier |-> modifier_state(kb)]
         [] ev.kind = "KeyRelease" /\ ev.key \in ShiftKeys ->
                [none EXCEPT !.keyboard.shift = FALSE]
         [] ev.kind = "KeyRelease" /\ ev.key \in AltKeys ->
                [none EXCEPT !.keyboard.alt = FALSE]
         [] OTHER -> none

\* the record of an add call: the event, whether the key had a keycode, the
\* value returned and the modifier state used; and of the calls so far which
\* shift keys are held (held) and whether the latest shift event and the
\* latest alt event was a press or a release
AddRecord(prev, ev, coded, r) ==
    LET tracked == ev.kind \in {"KeyPress", "KeyRelease"} /\ ev.key \in ShiftKeys \cup AltKeys
        edge == IF ev.kind = "KeyPress" THEN "press" ELSE "release"
    IN [seq |-> 1 - prev.seq, call |-> "add", kind |-> ev.kind, key |-> ev.key,
        coded |-> coded /\ ev.kind = "KeyPress" /\ ev.key = "Other",
        ret |-> r.ret, modifier |-> r.modifier,
        held |-> IF ~(tracked /\ ev.key \in ShiftKeys) THEN prev.held
                 ELSE IF ev.kind = "KeyPress" THEN prev.held \cup {ev.key}
                 ELSE prev.held \ {ev.key},
        lastShift |-> IF tracked /\ ev.key \in ShiftKeys THEN edge ELSE prev.lastShift,
        lastAlt |-> IF tracked /\ ev.key \in AltKeys THEN edge ELSE prev.lastAlt]

\* no session: the Keyboard value is used on its own
AddInit ==
    /\ Init
    /\ platform = "macos" /\ ~keyboardOnly /\ permissions = AllGranted
    /\ callsLeft = MaxCalls /\ eventsLeft = 0

\* whether code_from_key knows the key and what the OS answers matter to a
\* press of a key that is no modifier only
TranslationInputs(ev) ==
    IF ev.kind = "KeyPress" /\ ev.key = "Other"
    THEN {<< c, os >> : c \in BOOLEAN, os \in OSTranslations}
    ELSE {<< FALSE, NoLayout >>}

\* one call keyboard.add(&event_type)
KeyboardAdd ==
    /\ platform = "macos"
    /\ \E ev \in AddEvents :
        \E in \in TranslationInputs(ev) :
            LET r == Keyboard_add(keyboard, ev, in[1], in[2])
            IN /\ keyboard' = r.keyboard
               /\ lastAdd' = AddRecord(lastAdd, ev, in[1], r)
    /\ UNCHANGED << pc, op, ret, callsLeft, envVars, shared, quitPosted, lastInv,
                    simVars, cbVars, touchVars, keymap, grabVars, exitVars, queueVars >>

AddNext == KeyboardAdd

AddSpec == AddInit /\ [][AddNext]_vars

\* a step that is a call of add
AddCalled == lastAdd'.seq # lastAdd.seq

\* the fields of the Keyboard other than the named one are as before
OnlyChanges(field) ==
    \A f \in DOMAIN keyboard : f # field => keyboard'[f] = keyboard[f]

\* C32: press and release of a shift key set and clear shift, of Alt / AltGr
\* set and clear alt, a press of CapsLock toggles caps_lock and its release
\* changes nothing; all these return none and change no other field; a release
\* of another key and every non-key event return none and change nothing; a
\* press of another key leaves shift, alt and caps_lock and translates with
\* modifier state 10 (alt with shift or caps lock), 8 (alt only), 2 (shift or
\* caps lock only) or 0.
C32_ShadowModifiers ==
    [][AddCalled =>
        LET a == lastAdd'
            press == a.kind = "KeyPress"
            release == a.kind = "KeyRelease"
        IN /\ (press \/ release) /\ a.key \in ShiftKeys =>
                /\ keyboard'.shift = press /\ OnlyChanges("shift")
                /\ a.ret = NoUnicode /\ a.modifier = NoModifierState
           /\ (press \/ release) /\ a.key \in AltKeys =>
                /\ keyboard'.alt = press /\ OnlyChanges("alt")
                /\ a.ret = NoUnicode /\ a.modifier = NoModifierState
           /\ press /\ a.key = "CapsLock" =>
                /\ keyboard'.caps_lock = ~keyboard.caps_lock /\ OnlyChanges("caps_lock")
                /\ a.ret = NoUnicode /\ a.modifier = NoModifierState
           /\ ((release /\ a.key \in {"CapsLock", "Other"}) \/ ~(press \/ release)) =>
                /\ keyboard' = keyboard
                /\ a.ret = NoUnicode /\ a.modifier = NoModifierState
           /\ press /\ a.key = "Other" =>
                /\ OnlyChanges("dead_state")
                /\ a.coded =>
                    a.modifier =
                        IF keyboard.alt /\ (keyboard.shift \/ keyboard.caps_lock) THEN 10
                        ELSE IF keyboard.alt THEN 8
                        ELSE IF keyboard.shift \/ keyboard.caps_lock THEN 2
                        ELSE 0]_vars

\* a key was translated with modifier state 10 while alt and caps lock were
\* set and shift was not
C32_Witness ==
    /\ lastAdd.call = "add" /\ lastAdd.kind = "KeyPress" /\ lastAdd.key = "Other"
    /\ lastAdd.coded
    /\ lastAdd.modifier = 10
    /\ keyboard.alt /\ keyboard.caps_lock /\ ~keyboard.shift

\* C33: after any sequence of add calls shift is set exactly when the latest
\* shift event, of either shift key, was a press, and alt likewise for Alt and
\* AltGr: the two sides share one flag, so the release of one shift key while
\* the other is held leaves shift unset.
C33_LatestEdgeWins ==
    /\ keyboard.shift = (lastAdd.lastShift = "press")
    /\ keyboard.alt = (lastAdd.lastAlt = "press")

\* the left shift key was released while the right one is still held, and
\* shift is unset
C33_Witness ==
    /\ lastAdd.call = "add" /\ lastAdd.kind = "KeyRelease" /\ lastAdd.key = "ShiftLeft"
    /\ "ShiftRight" \in lastAdd.held
    /\ ~keyboard.shift

(***************************************************************************)
(* macOS: map_keycode (common.rs), applied over and over to a keycode      *)
(* with the layout type of the attached keyboard held fixed.               *)
(***************************************************************************)
MaxApplications == 3

\* a map_keycode that swaps in one direction only
map_keycode_one_way(code, layout) ==
    IF code = "kVK_ISO_Section" /\ layout = "kKeyboardISO" THEN "kVK_ANSI_Grave"
    ELSE code

\* map_keycode; layout is what kb_get_layout_type() answers
map_keycode(code, layout) ==
    CASE code = "kVK_ISO_Section" ->
            IF layout = "kKeyboardISO" THEN "kVK_ANSI_Grave" ELSE "kVK_ISO_Section"
      [] code = "kVK_ANSI_Grave" ->
            IF layout = "kKeyboardISO" THEN "kVK_ISO_Section" ELSE "kVK_ANSI_Grave"
      [] OTHER -> code

\* any keycode on any keyboard
MapInit ==
    /\ \E layout \in LayoutTypes, code \in Keycodes : InitWith(NoKeymap(layout, code))
    /\ platform = "macos" /\ ~keyboardOnly /\ permissions = AllGranted
    /\ callsLeft = MaxCalls /\ eventsLeft = 0

\* the value map_keycode was last given, or gave
Current(km) == IF km.outs = << >> THEN km.code ELSE km.outs[Len(km.outs)]

\* map_keycode is applied to the latest value
MapKeycode ==
    /\ Len(keymap.outs) < MaxApplications
    /\ keymap' = [keymap EXCEPT !.outs = Append(@, map_keycode(Current(keymap), keymap.layout))]
    /\ UNCHANGED << pc, op, ret, callsLeft, envVars, shared, quitPosted, lastInv,
                    simVars, cbVars, touchVars, keyboard, lastAdd, grabVars, exitVars, queueVars >>

MapNext == MapKeycode

MapSpec == MapInit /\ [][MapNext]_vars

\* the value the i-th application was given
GivenAt(km, i) == IF i = 1 THEN km.code ELSE km.outs[i - 1]

\* C34: map_keycode turns kVK_ISO_Section into kVK_ANSI_Grave and
\* kVK_ANSI_Grave into kVK_ISO_Section exactly when the keyboard reports an
\* ISO layout and is the identity otherwise; with the layout fixed, applying it
\* twice gives the keycode back.
C34_MapKeycodeSwap ==
    /\ \A i \in 1..Len(keymap.outs) :
        keymap.outs[i] =
            IF keymap.layout = "kKeyboardISO" /\ GivenAt(keymap, i) = "kVK_ISO_Section"
            THEN "kVK_ANSI_Grave"
            ELSE IF keymap.layout = "kKeyboardISO" /\ GivenAt(keymap, i) = "kVK_ANSI_Grave"
            THEN "kVK_ISO_Section"
            ELSE GivenAt(keymap, i)
    /\ Len(keymap.outs) >= 2 => keymap.outs[2] = keymap.code

\* on an ISO keyboard kVK_ANSI_Grave became kVK_ISO_Section and then
\* kVK_ANSI_Grave again
C34_Witness ==
    /\ keymap.layout = "kKeyboardISO"
    /\ keymap.code = "kVK_ANSI_Grave"
    /\ Len(keymap.outs) >= 2
    /\ keymap.outs[1] = "kVK_ISO_Section" /\ keymap.outs[2] = "kVK_ANSI_Grave"

(***************************************************************************)
(* macOS: the flags of a synthesized key event, for a live listen session  *)
(* whose tap latches the modifier flags.                                   *)
(***************************************************************************)
\* the flag words the hardware FlagsChanged events report
LatchedFlags == {0, MaskSecondaryFn, MaskSecondaryFn + MaskNumericPad + MaskHelp}

FlagsChangedEvents ==
    {NativeEvent("FlagsChanged", "kVK_Shift", f, FALSE, FALSE, DefaultTr) :
        f \in LatchedFlags}

\* key arguments of each arm of workaround_fn
WorkaroundKeys == {"KeyA", "kVK_F1", "keycode_129", "kVK_UpArrow", "kVK_Help"}

KeyEventTypes ==
    {[kind |-> k, arg |-> a] : k \in {"KeyPress", "KeyRelease"}, a \in WorkaroundKeys}

FlagInit == MacSessionLive("listen", FALSE)

\* listen.rs raw_callback for one hardware FlagsChanged event
FlagTapCallback(t) ==
    /\ pc[t] = "ml_run"
    /\ rlRunning[t]
    /\ \E tap \in installed, ev \in FlagsChangedEvents :
        /\ tap = Tap("listen", t, tap.mask)
        /\ LET c == convert(ev, LAST_FLAGS, dead_state)
           IN /\ LAST_FLAGS' = c.LAST_FLAGS
              /\ dead_state' = c.dead_state
              /\ lastInv' = PostedBy(listen_raw_callback(ev, listen_GLOBAL_CALLBACK,
                                                         listen_EVENT_TAP # 0, c.events),
                                     "hardware")
    /\ UNCHANGED << pc, op, ret, callsLeft, envVars,
                    listen_GLOBAL_CALLBACK, grab_GLOBAL_CALLBACK, IS_GRABBED,
                    listen_EVENT_TAP, grab_EVENT_TAP, RUN_LOOP, rlRunning, rlStopped,
                    installed, installs, winVars, quitPosted, cbVars, touchVars, kbVars, grabVars, exitVars, queueVars,
                    MOUSE_EXTRA_INFO, KEYBOARD_EXTRA_INFO, hid_queue, lastSim >>

\* simulate(event_type) of a key event, the earlier posted event having been
\* taken by the tap
KeySimulate(t) ==
    /\ pc[t] = "idle"
    /\ hid_queue = << >>
    /\ \E et \in KeyEventTypes, coded \in BOOLEAN, os_ok \in BOOLEAN :
        LET r == simulate(et, MOUSE_EXTRA_INFO, LAST_FLAGS, coded, os_ok)
        IN /\ hid_queue' = [i \in 1..Len(r.post) |->
                                Posted(r.post[i], DeviceClass(et.kind), "simulate")]
           /\ lastSim' = SimRecord("simulate", et, r)
    /\ UNCHANGED << simFrame, lastInv, MOUSE_EXTRA_INFO, KEYBOARD_EXTRA_INFO >>

FlagNext ==
    \E t \in Threads : FlagTapCallback(t) \/ KeySimulate(t) \/ SimTapCallback(t)

FlagSpec == FlagInit /\ [][FlagNext]_vars

\* the masks the claim names for a key-release of the keycode
StrippedOnRelease(code) ==
    IF code \in FnKeycodes THEN {MaskSecondaryFn}
    ELSE IF code \in ArrowKeycodes THEN {MaskSecondaryFn, MaskNumericPad}
    ELSE IF code = "kVK_Help" THEN {MaskSecondaryFn, MaskHelp}
    ELSE {}

\* C35: a key event posted by simulate carries LAST_FLAGS as it is at the
\* call: a key-down exactly that word, a key-up that word less SecondaryFn for
\* the F keys, keypad clear, forward delete, home, end, page up / down and
\* keycodes 129, 130, 131, 144, 145, less SecondaryFn and NumericPad for the
\* arrows, less SecondaryFn and Help for Help, and unchanged for other keys.
C35_SynthesizedFlags ==
    [][Len(hid_queue') > Len(hid_queue) =>
        LET ev == hid_queue'[Len(hid_queue')].ev
        IN /\ ev.type \in {"KeyDown", "KeyUp"}
           /\ ev.type = "KeyDown" => ev.flags = LAST_FLAGS
           /\ ev.type = "KeyUp" =>
                \A k \in 0..30 :
                    HasBit(ev.flags, 2^k) =
                        (HasBit(LAST_FLAGS, 2^k) /\ 2^k \notin StrippedOnRelease(ev.code))]_vars

\* the release of an arrow key was posted without SecondaryFn and NumericPad
\* while the latched flags hold SecondaryFn, NumericPad and Help
C35_Witness ==
    /\ LAST_FLAGS = MaskSecondaryFn + MaskNumericPad + MaskHelp
    /\ hid_queue # << >>
    /\ hid_queue[1].by = "simulate"
    /\ hid_queue[1].ev.type = "KeyUp"
    /\ hid_queue[1].ev.code = "kVK_UpArrow"
    /\ hid_queue[1].ev.flags = MaskHelp

(***************************************************************************)
(* The unicode field of the events handed over: a macOS listen session, or *)
(* a Windows grab session with set_get_key_unicode.                        *)
(***************************************************************************)
\* what Keyboard::get_unicode can answer for a key press
WinUnicodeAnswers ==
    {NoUnicode, [some |-> TRUE, length |-> 1, named |-> TRUE, is_dead |-> FALSE]}

\* a hook that asks for the unicode whatever the switch says
grab_event_unicode_always(opt, get_key_unicode, answer) ==
    IF opt = "KeyPress" THEN answer ELSE NoUnicode

\* windows/grab.rs raw_callback: the unicode of the Event it builds for the
\* event type opt; answer is what get_unicode answers if called
grab_event_unicode(opt, get_key_unicode, answer) ==
    IF get_key_unicode
    THEN IF opt = "KeyPress" THEN answer ELSE NoUnicode
    ELSE NoUnicode

\* the record of a hook invocation, with the switch it read, what get_unicode
\* would answer, and the unicode of the event it built
WithUnicode(inv, flag, answer, unicode) ==
    [f \in DOMAIN inv \cup {"flag", "os_unicode", "unicode"} |->
        CASE f = "flag" -> flag
          [] f = "os_unicode" -> answer
          [] f = "unicode" -> unicode
          [] OTHER -> inv[f]]

UnicodeInit ==
    \/ \E ko \in BOOLEAN : MacSessionLive("listen", ko)
    \/ WinSessionLive("grab")

\* set_get_key_unicode(b)
set_get_key_unicode(t) ==
    /\ platform = "windows"
    /\ pc[t] = "idle"
    /\ \E b \in BOOLEAN : GET_KEY_UNICODE' = b
    /\ UNCHANGED << pc, op, ret, callsLeft, envVars, shared, quitPosted, lastInv,
                    simVars, cbVars, touchVars, kbVars, exitVars, queueVars >>

\* the OS calls a hook of thread t's grab session
WinGrabHookCallback(t) ==
    /\ platform = "windows"
    /\ pc[t] = "wg_loop"
    /\ \E h \in installed, code \in HookCodes :
        /\ h.dev \in {"keyboard", "mouse"}
        /\ h.thread = t
        /\ h.mode = "grab"
        /\ \E opt \in ConvertResults(h.dev), answer \in GrabAnswers,
              u \in WinUnicodeAnswers :
            lastInv' = WithUnicode(
                           win_grab_raw_callback(h.dev, code, opt,
                                                 grab_GLOBAL_CALLBACK, answer),
                           GET_KEY_UNICODE, u,
                           IF code = HC_ACTION /\ opt # "none"
                           THEN grab_event_unicode(opt, GET_KEY_UNICODE, u)
                           ELSE NoUnicode)
    /\ UNCHANGED << pc, op, ret, callsLeft, envVars, shared, quitPosted,
                    simVars, cbVars, touchVars, kbVars, grabVars, exitVars, queueVars >>

UnicodeNext ==
    \E t \in Threads :
        \/ ConvertTapCallback(t) \/ KeyTapCallback(t)
        \/ set_get_key_unicode(t) \/ WinGrabHookCallback(t)

UnicodeSpec == UnicodeInit /\ [][UnicodeNext]_vars

\* C36: unicode is filled for key presses alone.  On macOS an event of a tap
\* invocation carries a unicode only when the native event is a KeyDown, and
\* then the list is the KeyPressRaw / KeyPress pair with one value in both;
\* FlagsChanged, KeyUp and pointer events give none.  A Windows grab hook gives
\* a unicode only for a KeyPress, only when GET_KEY_UNICODE was true, and then
\* the answer of get_unicode; with the switch false every event has none.
C36_UnicodeOnKeyPressOnly ==
    /\ lastInv.kind = "tap" =>
        \A i \in 1..Len(lastInv.converted) :
            lastInv.converted[i].unicode # NoUnicode =>
                /\ lastInv.inType = "KeyDown"
                /\ Kinds(lastInv.converted) = << "KeyPressRaw", "KeyPress" >>
                /\ lastInv.converted[1].unicode = lastInv.converted[2].unicode
    /\ lastInv.kind = "hook" =>
        /\ lastInv.unicode # NoUnicode => lastInv.opt = "KeyPress" /\ lastInv.flag
        /\ lastInv.opt = "KeyPress" /\ lastInv.flag /\ lastInv.code = HC_ACTION
                => lastInv.unicode = lastInv.os_unicode
        /\ ~lastInv.flag => lastInv.unicode = NoUnicode

\* a grab hook built a KeyPress without unicode after set_get_key_unicode(false)
\* although get_unicode would have answered one
C36_Witness ==
    /\ platform = "windows"
    /\ lastInv.kind = "hook"
    /\ lastInv.code = HC_ACTION
    /\ lastInv.opt = "KeyPress"
    /\ ~lastInv.flag
    /\ lastInv.os_unicode # NoUnicode
    /\ lastInv.unicode = NoUnicode

(***************************************************************************)
(* C37: Windows exit_grab.                                                 *)
(***************************************************************************)
\* thread t leaves exit_grab in this step
ExitGrabReturns(t) == platform = "windows" /\ pc[t] = "we_post" /\ pc'[t] # "we_post"

\* C37: Windows exit_grab with a session recorded either posts the quit
\* message to the hook thread, resets the recorded id to 0 and returns Ok, or,
\* the post failing, returns ExitGrabError and leaves the recorded id (and so
\* is_grabbed()) as it was; with no session recorded it posts nothing and
\* returns Ok.
C37_ExitGrabOutcomes ==
    [][\A t \in Threads : ExitGrabReturns(t) =>
        IF CUR_HOOK_THREAD_ID = 0
        THEN /\ msgq' = msgq
             /\ ret'[t] = "Ok"
             /\ CUR_HOOK_THREAD_ID' = 0
        ELSE \/ /\ msgq' = [msgq EXCEPT ![CUR_HOOK_THREAD_ID] =
                                Append(@, "WM_USER_EXIT_HOOK")]
                /\ ret'[t] = "Ok"
                /\ CUR_HOOK_THREAD_ID' = 0
             \/ /\ msgq' = msgq
                /\ ret'[t] = "ExitGrabError"
                /\ CUR_HOOK_THREAD_ID' = CUR_HOOK_THREAD_ID]_vars

\* exit_grab answered ExitGrabError and the grab session is still recorded,
\* its thread in the message loop with no exit message queued
C37_Witness ==
    \E t, g \in Threads :
        /\ platform = "windows"
        /\ op[t] = "exit_grab" /\ ret[t] = "ExitGrabError"
        /\ CUR_HOOK_THREAD_ID = g
        /\ pc[g] = "wg_loop"
        /\ msgq[g] = << >>

(***************************************************************************)
(* exit_grab called from inside the user callback of a live grab session.  *)
(***************************************************************************)
ReentrantInit == MacSessionLive("grab", FALSE) \/ WinSessionLive("grab")

\* the OS enters the raw callback of thread t's grab session while the thread
\* waits in its run loop or message loop
GrabCbInvoke(t) ==
    /\ frames[t] = << >>
    /\ eventsLeft > 0
    /\ eventsLeft' = eventsLeft - 1
    /\ \E path \in PathsOf(t) : \E dev \in DevicesOf(t, path) :
        frames' = [frames EXCEPT ![t] = Append(@, Frame(path, dev, "start", 0, 0))]
    /\ UNCHANGED << pc, op, ret, callsLeft, platform, keyboardOnly, permissions,
                    shared, quitPosted, lastInv, simVars, touchVars, kbVars, grabVars,
                    exitVars, queueVars, keyboard_mutex, callback_mutex >>

\* macos/grab.rs exit_grab, called by the user callback that runs on thread t
CbMacExitGrab(t) ==
    /\ At(t, "in_cb")
    /\ Top(t).path = "mac_grab"
    /\ IS_GRABBED' = FALSE
    /\ rlStopped' = IF RUN_LOOP # 0 THEN CFRunLoopStop(RUN_LOOP) ELSE rlStopped
    /\ lastExit' = [ret |-> "Ok", by |-> t]
    /\ UNCHANGED << pc, op, ret, callsLeft, envVars,
                    listen_GLOBAL_CALLBACK, grab_GLOBAL_CALLBACK,
                    listen_EVENT_TAP, grab_EVENT_TAP, RUN_LOOP, rlRunning,
                    installed, installs, LAST_FLAGS, dead_state, winVars,
                    lastInv, simVars, cbVars, touchVars, kbVars, grabVars,
                    cur_hook_mutex, queueVars >>

\* windows/grab.rs exit_grab, called by the user callback that runs on thread
\* t: CUR_HOOK_THREAD_ID.lock()
CbWinExitGrabLock(t) ==
    /\ At(t, "in_cb")
    /\ Top(t).path = "win_grab"
    /\ MutexLock(cur_hook_mutex, t).ok
    /\ cur_hook_mutex' = MutexLock(cur_hook_mutex, t).mutex
    /\ frames' = SetTop(t, [Top(t) EXCEPT !.pc = "exit_locked"])
    /\ UNCHANGED << pc, op, ret, callsLeft, envVars, shared, quitPosted, lastInv,
                    simVars, touchVars, kbVars, grabVars, queueVars, lastExit,
                    keyboard_mutex, callback_mutex >>

\* the rest of that exit_grab, under the lock; the guard is dropped at return
CbWinExitGrabPost(t) ==
    /\ At(t, "exit_locked")
    /\ \E posted \in BOOLEAN :
         LET r == win_exit_grab(CUR_HOOK_THREAD_ID, posted)
         IN /\ msgq' = IF r.post
                       THEN [msgq EXCEPT ![CUR_HOOK_THREAD_ID] =
                                    Append(@, "WM_USER_EXIT_HOOK")]
                       ELSE msgq
            /\ CUR_HOOK_THREAD_ID' = r.cur
            /\ lastExit' = [ret |-> r.ret, by |-> t]
    /\ cur_hook_mutex' = drop_guard(cur_hook_mutex, t)
    /\ frames' = SetTop(t, [Top(t) EXCEPT !.pc = "in_cb"])
    /\ UNCHANGED << pc, op, ret, callsLeft, envVars,
                    listen_GLOBAL_CALLBACK, grab_GLOBAL_CALLBACK, winFrame,
                    hook_keyboard, hook_mouse, raw_input_hwnd, quitPosted,
                    installed, installs, lastInv, simVars, touchVars, kbVars,
                    grabVars, queueVars, keyboard_mutex, callback_mutex >>

\* the session thread is back in its loop: no raw callback is on its stack
InLoop(t) == frames[t] = << >>

GrabRunLoopReturns(t) == InLoop(t) /\ MacGrabRunLoopReturn(t)
GrabFinishes(t) == InLoop(t) /\ MacGrabFinish(t)
GrabLoopMessage(t) == InLoop(t) /\ WinGrabLoop(t)
\* *CUR_HOOK_THREAD_ID.lock() = 0 takes the lock for the store
GrabLoopFinishes(t) == InLoop(t) /\ MutexLock(cur_hook_mutex, t).ok /\ WinGrabFinish(t)

\* the statements the session thread executes by itself
SessionStep(t) ==
    \/ CbStart(t) \/ CbLockKeyboard(t) \/ CbConverted(t) \/ CbLockCallback(t)
    \/ CbCallbackReturns(t) \/ CbUnlockCallback(t) \/ CbReturn(t)
    \/ CbWinExitGrabPost(t)
    \/ GrabRunLoopReturns(t) \/ GrabFinishes(t)
    \/ GrabLoopMessage(t) \/ GrabLoopFinishes(t)

ReentrantNext ==
    \E t \in Threads :
        \/ GrabCbInvoke(t)
        \/ CbStart(t) \/ CbLockKeyboard(t) \/ CbConverted(t) \/ CbLockCallback(t)
        \/ CbCallbackReturns(t) \/ CbUnlockCallback(t) \/ CbReturn(t)
        \/ CbMacExitGrab(t) \/ CbWinExitGrabLock(t) \/ CbWinExitGrabPost(t)
        \/ GrabRunLoopReturns(t) \/ GrabFinishes(t)
        \/ GrabLoopMessage(t) \/ GrabLoopFinishes(t)

ReentrantSpec == ReentrantInit /\ [][ReentrantNext]_vars

\* a thread keeps executing unless it waits: for a lock, for a message, for an
\* event; the user callback returns
ReentrantLiveSpec == ReentrantSpec /\ \A t \in Threads : WF_vars(SessionStep(t))

\* C38: once exit_grab, called from inside the user callback of a live grab
\* session, has returned Ok, the callback invocation completes and grab
\* returns on the session thread.
C38_ExitGrabInsideCallback ==
    \A t \in Threads :
        (lastExit.ret = "Ok" /\ lastExit.by = t) ~> (pc[t] = "idle" /\ op[t] = "grab")

(***************************************************************************)
(* macOS: the hop of create_unicode_for_key to the main dispatch queue,    *)
(* for a listen session on the main thread or on another thread.           *)
(***************************************************************************)
\* key-down events of a letter key without Command / Control, and what
\* UCKeyTranslate answers when the closure is run
TranslatedKeyDowns ==
    {NativeEvent("KeyDown", "kVK_ANSI_A", 0, FALSE, FALSE, [timeout |-> FALSE, os |-> o]) :
        o \in OSTranslations}

QueueInit == \E main \in Threads : MacSessionLiveOn("listen", FALSE, main)

\* a main queue that runs a closure whatever its thread is doing
CanService_while_waiting(m) == m = main_thread

\* whether thread m takes a closure off the main queue: it is the thread that
\* services the queue and it is not inside create_unicode_for_key, waiting in
\* rx.recv_timeout
CanService(m) == m = main_thread /\ ~(rx.state # "none" /\ rx.by = m)

\* raw_callback up to the wait of create_unicode_for_key: the closure goes to
\* the main queue with its sender, the callback waits on the receiver
TapKeyDownDispatch(t) ==
    /\ platform = "macos"
    /\ pc[t] = "ml_run"
    /\ rlRunning[t]
    /\ rx = NoWait
    /\ eventsLeft > 0
    /\ eventsLeft' = eventsLeft - 1
    /\ \E tap \in installed, ev \in TranslatedKeyDowns :
        /\ tap = Tap("listen", t, tap.mask)
        /\ main_queue' = Append(main_queue, [tx |-> eventsLeft])
        /\ rx' = [state |-> "waiting", by |-> t, id |-> eventsLeft, ev |-> ev]
    /\ UNCHANGED << pc, op, ret, callsLeft, platform, keyboardOnly, permissions,
                    shared, quitPosted, lastInv, simVars, cbVars, touchVars, kbVars,
                    grabVars, exitVars, main_thread >>

\* the main thread runs the oldest closure: unicode_from_code_static, then
\* tx.send, which is lost when the receiver is gone
MainQueueRun(m) ==
    /\ main_queue # << >>
    /\ CanService(m)
    /\ main_queue' = Tail(main_queue)
    /\ rx' = IF rx.state = "waiting" /\ rx.id = Head(main_queue).tx
             THEN [rx EXCEPT !.state = "sent"]
             ELSE rx
    /\ UNCHANGED << pc, op, ret, callsLeft, envVars, shared, quitPosted, lastInv,
                    simVars, cbVars, touchVars, kbVars, grabVars, exitVars, main_thread >>

\* the callback goes on with the event whose wait ended: got is whether
\* recv_timeout answered Ok
TapKeyDownResume(t, got) ==
    LET ev == [rx.ev EXCEPT !.tr.timeout = ~got]
        c == convert(ev, LAST_FLAGS, dead_state)
    IN /\ LAST_FLAGS' = c.LAST_FLAGS
       /\ dead_state' = c.dead_state
       /\ lastInv' = WithTranslation(
                         listen_raw_callback(ev, listen_GLOBAL_CALLBACK,
                                             listen_EVENT_TAP # 0, c.events),
                         ev, dead_state)
       /\ rx' = NoWait
       /\ UNCHANGED << pc, op, ret, callsLeft, envVars,
                       listen_GLOBAL_CALLBACK, grab_GLOBAL_CALLBACK, IS_GRABBED,
                       listen_EVENT_TAP, grab_EVENT_TAP, RUN_LOOP, rlRunning, rlStopped,
                       installed, installs, winVars, quitPosted, simVars, cbVars,
                       touchVars, kbVars, grabVars, exitVars, main_thread, main_queue >>

\* rx.recv_timeout answers Ok: the closure has sent its result
TapKeyDownReceive(t) ==
    /\ rx.state = "sent" /\ rx.by = t
    /\ TapKeyDownResume(t, TRUE)

\* rx.recv_timeout answers Err after 100 ms
TapKeyDownTimeout(t) ==
    /\ rx.state = "waiting" /\ rx.by = t
    /\ TapKeyDownResume(t, FALSE)

QueueNext ==
    \E t \in Threads :
        \/ TapKeyDownDispatch(t) \/ MainQueueRun(t)
        \/ TapKeyDownReceive(t) \/ TapKeyDownTimeout(t)

QueueSpec == QueueInit /\ [][QueueNext]_vars

\* C39: when the session runs on the thread that services the main dispatch
\* queue, the closure of create_unicode_for_key does not run while the tap
\* callback waits for it, so every wait of a key-down expires: the KeyPressRaw /
\* KeyPress pair is handed over with unicode none and dead_state stays as it was.
C39_MainThreadSessionNeverTranslates ==
    \A t \in Threads :
        (pc[t] = "ml_run" /\ main_thread = t) =>
            /\ rx.state # "sent"
            /\ dead_state = 0
            /\ lastInv.kind = "tap" =>
                /\ lastInv.inTimeout
                /\ Kinds(lastInv.delivered) = << "KeyPressRaw", "KeyPress" >>
                /\ \A i \in 1..2 : lastInv.delivered[i].unicode = NoUnicode

\* a main-thread session handed over a key-down without unicode although the
\* translator, run later from the queue, answers text and a dead-key state
C39_Witness ==
    /\ main_thread = 1
    /\ pc[1] = "ml_run"
    /\ lastInv.kind = "tap" /\ lastInv.inType = "KeyDown"
    /\ lastInv.inOs.layout /\ lastInv.inOs.length = 1 /\ ~lastInv.inOs.c0
    /\ lastInv.inOs.dead # 0
    /\ Len(lastInv.delivered) = 2
    /\ lastInv.delivered[2].unicode = NoUnicode
    /\ main_queue = << >>
    /\ eventsLeft = 0

====
